---- MODULE Spec2Model ----
(***************************************************************************)
(* Verification model of the ocsarchive-iiif orchestration layer:          *)
(*   - the GetFrameDimensions and CreateImage workflows                    *)
(*     (temporal/workflows/workflows.py) with their outer retry shell,     *)
(*   - the activities they invoke (temporal/activities/activities.py),     *)
(*     executed at least once by the engine under each call's retry policy,*)
(*   - the object store's multipart uploads and the worker's temp files.   *)
(***************************************************************************)
EXTENDS Integers, Sequences, FiniteSets, TLC

(* ------------------------------ bounds --------------------------------- *)
\* Outer-shell iterations explored (the shell itself loops without bound).
MaxIter == 2
\* Attempts explored for activities invoked with the default retry policy
\* (no maximum_attempts: the engine retries them without bound).
MaxTries == 2
\* Largest part_count explored (ceil(file_size / part_size)).
MaxParts == 2

(* --------------------------- program constants ------------------------- *)
\* RetryPolicy(maximum_attempts=3)
MaximumAttempts == 3
\* await asyncio.sleep(5)
BackoffSeconds == 5

\* Worker-specific task queues (one per worker process).
Workers == {"worker/a", "worker/b"}

\* @workflow.defn classes wrapped by the retry shell.
WorkflowKinds == {"GetFrameDimensions", "CreateImage"}

(* ------------------------------ exceptions ----------------------------- *)
\* What an awaited step can raise into the workflow coroutine:
\*   "failed"       ActivityError: the engine gave up (attempts exhausted,
\*                  or a timeout that is not retried)
\*   "nonretryable" ActivityError caused by ApplicationError(non_retryable=True)
\*   "cancelfail"   ActivityError whose cause is a cancellation: the failure
\*                  of the step that was cancelled
\*   "cancel"       asyncio.CancelledError raised directly at the await
\* The first three are instances of Exception; asyncio.CancelledError is a
\* BaseException only.
ExceptionKinds == {"failed", "nonretryable", "cancelfail"}

\* Steps: the activities awaited by GetFrameDimensions._run and CreateImage._run.
ActivitySteps == {"find_best_worker", "download", "get_hdu_dimensions",
                  "create_image_file", "start_upload", "upload_parts",
                  "finish_upload", "abort_upload", "delete_file"}

\* Calls that pass retry_policy=RetryPolicy(maximum_attempts=3).
BoundedSteps == {"download", "get_hdu_dimensions", "create_image_file",
                 "upload_parts", "delete_file"}

\* maximum_attempts of the default retry policy: no limit.
Unlimited == 0

\* maximum_attempts of the retry policy each call is invoked with.
MaximumAttemptsOf(step) ==
  IF step \in BoundedSteps THEN MaximumAttempts ELSE Unlimited

\* Calls that pass schedule_to_start_timeout=timedelta(seconds=15).
ScheduleToStartSteps == {"download", "get_hdu_dimensions", "create_image_file",
                         "upload_parts", "delete_file"}

\* Attempts the engine makes before it reports the step as failed.
AttemptLimit(step) == IF step \in BoundedSteps THEN MaximumAttempts ELSE MaxTries

\* Activities whose code raises ApplicationError(..., non_retryable=True).
NonRetryableSteps == {"download", "get_hdu_dimensions", "create_image_file"}

VARIABLES
  wfKind,     \* which workflow this execution runs
  input,      \* the workflow input (frame id)
  pc,         \* the step the workflow is suspended in, or backoff/completed/cancelled
  iter,       \* number of the current _run iteration
  attempt,    \* attempt number of the current step's activity
  w,          \* task queue returned by find_best_worker in this iteration
  genFile,    \* index in files of generated_img.file_path (0: not bound)
  partCount,  \* part_count of this iteration
  mp,         \* index in uploads of mp_upload.upload_id (0: not bound)
  parts,      \* upload_tasks: part number -> task state
  pending,    \* exception in flight while a handler / finally block runs
  lastExc,    \* exception with which the last iteration left _run ("none")
  failAt,     \* step whose failure first raised in this iteration ("none")
  failKind,   \* what that step raised ("none")
  cancelled,  \* a cancellation request has been delivered to the workflow
  cancelAt,   \* step of this iteration that the cancellation interrupted ("none")
  abortInv,   \* upload index abort_s3_multipart_upload was invoked for (0: not)
  deleteInv,  \* <<file index, task queue>> delete_file was invoked with, or <<>>
  uploads,    \* object store: the multipart uploads created in this iteration
  files,      \* worker disks: the temp files created in this iteration
  result,     \* s3 object key / dimensions returned ("none" until completed)
  arg,        \* the input passed to the current call of _run
  timer,      \* seconds of the shell's pending asyncio.sleep (0: none)
  \* --- API callers and the engine's registry of workflow runs ---
  api,        \* the endpoint code the callers run
  runs,       \* the engine's runs: sequence of [id, status, input]
  callers,    \* caller -> [pc, reuse, force_download, recheck_version,
              \*            started, watch, refused, got]
  \* --- the frame archive, the workers' frame caches, finished image runs ---
  archive,    \* id of the newest version of the frame in the archive
  cache,      \* worker -> [versions, latest]: completed files and the alias
  images,     \* outputs of the successful CreateImage runs, in order
  \* --- the part uploads of one encoded file ---
  file_size,     \* generated_img.file_size (0: no file)
  upload_tasks,  \* the UploadS3PartInput of each task the loop has created
  put_requests,  \* part number -> content-length of the PUT sent for the part
  part_failures, \* task -> attempts of its upload_s3_part that have failed
  upload_results,\* task -> the UploadS3PartOutput its activity returned
  completion,    \* the tasks in the order in which they completed
  uploaded_parts,\* the list given to finish_s3_multipart_upload (<<>>: not yet)
  \* --- one image request: region and size normalization ---
  info,         \* the ImageInfoResponse of the frame's HDU
  region,       \* the region path parameter
  norm_region,  \* outcome of normalize_region(region, info)
  size,         \* the size path parameter
  norm_size,    \* outcome of normalize_size(size, norm_region, info)
  create_image, \* the request's execute_workflow call: its inputs and its id
  gen,          \* upload_s3_part's body generator: its input and its locals
  \* --- the worker's task-queue file and the processes started on it ---
  token_file,   \* content of worker-task-queue.txt (Absent: no such file)
  procs,        \* process -> [pc, q, restarts]
  uuids,        \* number of uuid4() values drawn so far
  written,      \* the tokens that have been written to the file
  resolved,     \* <<returned, listening>> of the find_best_worker executions
  \* --- one FITS file read by get_hdu_dimensions and create_image_file ---
  fits_hdus,    \* the file's HDUs: the number of dimensions of each
  hdu_index,    \* the requested HDU index
  dims_result,  \* outcome of get_hdu_dimensions
  image_result, \* outcome of create_image_file
  \* --- one worker's frame cache and the downloads of one frame ---
  working_dir,      \* kind of path the worker's working_dir is configured as
  frame_meta,       \* the archive's metadata of the frame: [version, name]
  completed_files,  \* version -> names of the files in its completed directory
  inprogress_files, \* <<version, name>> of the files in the in-progress area
  inodes,       \* the files written by the downloads: where they are, what they hold
  latest,           \* the `latest` alias: what the link resolves to, or NoAlias
  last_completed,   \* version of the file moved into place last (0: none)
  dl,               \* the executions of download_frame_file, in order of start
  last_ended,       \* how the execution that ended last has ended
  dl_runs,          \* the runs of the DownloadFrameFile workflow
  fetchers          \* pipeline -> its download_frame_file_with_workflow call

vars == <<wfKind, input, arg, pc, iter, attempt, w, genFile, partCount, mp, parts,
          pending, lastExc, failAt, failKind, cancelled, cancelAt, abortInv,
          deleteInv, uploads, files, result, timer,
          api, runs, callers,
          archive, cache, images,
          file_size, upload_tasks, put_requests,
          part_failures, upload_results, completion, uploaded_parts,
          info, region, norm_region, size, norm_size, create_image, gen,
          token_file, procs, uuids, written, resolved,
          fits_hdus, hdu_index, dims_result, image_result,
          working_dir, frame_meta, completed_files, inprogress_files, inodes, latest,
          last_completed, dl, last_ended, dl_runs, fetchers>>

\* The variables of one workflow execution and of the world it acts on.
workflowVars == <<wfKind, input, arg, pc, iter, attempt, w, genFile, partCount, mp,
                  parts, pending, lastExc, failAt, failKind, cancelled, cancelAt,
                  abortInv, deleteInv, uploads, files, result, timer>>
\* The variables of the API callers and of the engine's registry.
registryVars == <<api, runs, callers>>
\* The variables of the frame archive and caches and of the finished runs.
frameVars == <<archive, cache, images>>
\* The components studied on their own, apart from one workflow execution
\* and from the registry.
\* The variables of the part uploads of one encoded file.
partVars == <<file_size, upload_tasks, put_requests,
              part_failures, upload_results, completion, uploaded_parts>>
\* The variables of one image request's normalization.
normVars == <<info, region, norm_region, size, norm_size, create_image>>
\* The variables of the worker's task-queue file and of its processes.
tokenVars == <<token_file, procs, uuids, written, resolved>>
\* The variables of one FITS file and of the activities that read it.
hduVars == <<fits_hdus, hdu_index, dims_result, image_result>>
\* The variables of one worker's frame cache and of its downloads.
downloadVars == <<working_dir, frame_meta, completed_files, inprogress_files, inodes,
                  latest, last_completed, dl, last_ended, dl_runs, fetchers>>
\* The variables of the request body of one part upload.
bodyVars == <<gen>>
componentVars == <<frameVars, partVars, normVars, tokenVars, hduVars, downloadVars,
                   bodyVars>>
\* Everything a step of the workflow execution leaves alone.
besideWorkflow == <<registryVars, componentVars>>
\* Everything a step of a caller or of the registry leaves alone.
besideRegistry == <<workflowVars, componentVars>>
\* Everything a step of one of the other components leaves alone.
besideFrames ==
  <<workflowVars, registryVars, partVars, normVars, tokenVars, hduVars,
    downloadVars,
    bodyVars>>
besideParts ==
  <<workflowVars, registryVars, frameVars, normVars, tokenVars, hduVars,
    downloadVars,
    bodyVars>>
besideNormalize ==
  <<workflowVars, registryVars, frameVars, partVars, tokenVars, hduVars,
    downloadVars,
    bodyVars>>
besideToken ==
  <<workflowVars, registryVars, frameVars, partVars, normVars, hduVars,
    downloadVars,
    bodyVars>>
besideDownload ==
  <<workflowVars, registryVars, frameVars, partVars, normVars, tokenVars, hduVars,
    bodyVars>>
besideBody ==
  <<workflowVars, registryVars, frameVars, partVars, normVars, tokenVars, hduVars,
    downloadVars>>
besideHdu ==
  <<workflowVars, registryVars, frameVars, partVars, normVars, tokenVars,
    downloadVars,
    bodyVars>>

InputFrames == {"frame-1", "frame-2"}

(* --------------------------- control flow ------------------------------ *)
\* Variant: the handler around the part uploads catches application errors only.
InnerExceptCatchesApplicationOnly(e) == e = "nonretryable"

\* `except Exception:` around the part uploads and finalize.
InnerExceptCatches(e) == e \in ExceptionKinds

\* Variant: the try/finally block opens only after the upload was created.
HandlerOfLateTry(step, e) ==
  CASE step \in {"upload_parts", "finish_upload"} ->
         IF e \in ExceptionKinds THEN "abort_upload" ELSE "delete_file"
    [] step = "abort_upload" -> "delete_file"
    [] OTHER -> "leave"

\* Where control goes when `step` raises e inside _run: the handler or
\* finally block that runs next, or "leave" when e propagates out of _run.
\* GetFrameDimensions._run has no try block.
HandlerOf(step, e) ==
  CASE step \in {"upload_parts", "finish_upload"} ->
         IF InnerExceptCatches(e) THEN "abort_upload" ELSE "delete_file"
    [] step \in {"start_upload", "abort_upload"} -> "delete_file"
    [] OTHER -> "leave"

\* Variant: the shell retries only failures of exhausted retries.
ShellRetriesTransientOnly(e) == e = "failed"

\* The outer retry shell: `except asyncio.CancelledError: raise`,
\* `except Exception: await asyncio.sleep(5); continue`.
ShellRetries(e) == e \in ExceptionKinds
\* Variant: no shell, an exception that leaves _run ends the workflow.
ShellNextNoRetry(e) == IF e = "cancel" THEN "cancelled" ELSE "failed"

\* An exception the shell does not retry ends the workflow: cancelled for
\* asyncio.CancelledError, failed for anything else.
ShellNext(e) ==
  IF ShellRetries(e) THEN "backoff" ELSE IF e = "cancel" THEN "cancelled" ELSE "failed"
\* The timer the shell starts when it retries.
ShellTimer(e) == IF ShellRetries(e) THEN BackoffSeconds ELSE 0

\* The input the shell passes to the next call of _run: `self._run(i)`.
ShellArg(i) == i

\* First step of _run.
FirstStep == "find_best_worker"

\* Step that follows the frame download.
AfterDownload(kind) ==
  IF kind = "GetFrameDimensions" THEN "get_hdu_dimensions" ELSE "create_image_file"

\* task_queue="generic": the queue the API starts both workflows on, and
\* the queue of every activity call that names no task_queue.
WorkflowTaskQueue == "generic"

\* Calls that pass task_queue=w.task_queue.
PinnedSteps == {"download", "get_hdu_dimensions", "create_image_file",
                "upload_parts", "delete_file"}

\* Variant: delete_file is called without task_queue.
TaskQueueOfUnpinnedDelete(step) ==
  IF step \in PinnedSteps \ {"delete_file"} THEN w ELSE WorkflowTaskQueue

\* The task queue the activity of `step` is dispatched to.
TaskQueueOf(step) ==
  IF step \in PinnedSteps THEN w ELSE WorkflowTaskQueue

\* download_frame_file_with_workflow starts DownloadFrameFile with
\* task_queue=activity.info().task_queue, the queue it was dispatched to.
DownloadFrameFileTaskQueue == TaskQueueOf("download")

\* DownloadFrameFile.run calls download_frame_file without task_queue: the
\* activity goes to the queue of the workflow.
DownloadFrameFileActivityQueue == DownloadFrameFileTaskQueue

\* delete_file(file_path=generated_img.file_path, task_queue=w.task_queue)
DeleteFileCall == <<genFile, TaskQueueOf("delete_file")>>

\* abort_s3_multipart_upload(object_key/upload_id of mp_upload)
AbortCall == mp

\* Step `step` raises e into the workflow coroutine.
Raise(step, e) ==
  LET h == HandlerOf(step, e) IN
  /\ failAt' = IF failAt = "none" THEN step ELSE failAt
  /\ failKind' = IF failAt = "none" THEN e ELSE failKind
  /\ attempt' = 1
  /\ IF h = "leave"
       THEN /\ pc' = ShellNext(e)
            /\ timer' = ShellTimer(e)
            /\ lastExc' = e
            /\ pending' = "none"
            /\ UNCHANGED <<abortInv, deleteInv>>
       ELSE /\ pc' = h
            /\ pending' = e
            /\ timer' = timer
            /\ abortInv' = IF h = "abort_upload" THEN AbortCall ELSE abortInv
            /\ deleteInv' = IF h = "delete_file" THEN DeleteFileCall ELSE deleteInv
            /\ UNCHANGED lastExc

(* ------------------------- activity side effects ----------------------- *)
\* _create_image_threaded: tempfile.mkstemp creates the file on the worker.
NewFile == Append(files, [worker |-> TaskQueueOf("create_image_file"), present |-> TRUE])
\* s3_client.create_multipart_upload
NewUpload == Append(uploads, [status |-> "open"])
\* s3_client.complete_multipart_upload: completes the upload if it is open.
Completed == IF uploads[mp].status = "open"
               THEN [uploads EXCEPT ![mp].status = "completed"] ELSE uploads
\* s3_client.abort_multipart_upload: aborts the upload if it is open.
Aborted == IF uploads[abortInv].status = "open"
             THEN [uploads EXCEPT ![abortInv].status = "aborted"] ELSE uploads
\* aiofiles.os.remove(i.file_path), executed by the worker of the call's queue.
Removed == [files EXCEPT ![deleteInv[1]].present = FALSE]

\* Whether one execution of the step's activity can run to its end in the
\* current state of the store / the disk (otherwise it raises).
CanSucceed(step) ==
  CASE step = "finish_upload" -> uploads[mp].status \in {"open", "completed"}
    [] step = "abort_upload" -> TRUE
    [] step = "delete_file" -> /\ files[deleteInv[1]].present
                               /\ files[deleteInv[1]].worker = deleteInv[2]
    [] OTHER -> TRUE

\* The store and the disk after one execution of the step's activity that
\* ran to its end.
EffectUploads(step) ==
  CASE step = "start_upload" -> NewUpload
    [] step = "finish_upload" -> Completed
    [] step = "abort_upload" -> Aborted
    [] OTHER -> uploads
EffectFiles(step) ==
  CASE step = "create_image_file" -> NewFile
    [] step = "delete_file" -> Removed
    [] OTHER -> files

ctl == <<pc, attempt, pending, lastExc, failAt, failKind, abortInv, deleteInv, timer>>
iterVars == <<w, genFile, partCount, mp, parts>>
wfVars == <<wfKind, input, arg, iter, result>>
quiet == <<pending, lastExc, failAt, failKind, abortInv, deleteInv, timer>>
cancelVars == <<cancelled, cancelAt>>
world == <<uploads, files>>

WorkflowInit ==
  /\ wfKind \in WorkflowKinds
  /\ input \in InputFrames
  /\ arg = input
  /\ pc = FirstStep
  /\ iter = 1
  /\ attempt = 1
  /\ w = "none"
  /\ genFile = 0
  /\ partCount = 0
  /\ mp = 0
  /\ parts = <<>>
  /\ pending = "none"
  /\ lastExc = "none"
  /\ failAt = "none"
  /\ failKind = "none"
  /\ cancelled = FALSE
  /\ cancelAt = "none"
  /\ abortInv = 0
  /\ deleteInv = <<>>
  /\ uploads = <<>>
  /\ files = <<>>
  /\ result = "none"
  /\ timer = 0

(* ------------------------------ _run steps ----------------------------- *)
\* find_best_worker returns the queue of the worker that executed it.
FindBestWorkerOk ==
  /\ pc = "find_best_worker"
  /\ \E q \in Workers : w' = q
  /\ pc' = "download"
  /\ attempt' = 1
  /\ UNCHANGED <<quiet,
                 genFile, partCount, mp, parts, wfVars, cancelVars, world>>
  /\ UNCHANGED besideWorkflow

\* download_frame_file_with_workflow returns the local frame file.
DownloadOk ==
  /\ pc = "download"
  /\ pc' = AfterDownload(wfKind)
  /\ attempt' = 1
  /\ UNCHANGED <<quiet,
                 iterVars, wfVars, cancelVars, world>>
  /\ UNCHANGED besideWorkflow

\* get_hdu_dimensions returns; GetFrameDimensions._run returns its output.
GetHduDimensionsOk ==
  /\ pc = "get_hdu_dimensions"
  /\ pc' = "completed"
  /\ result' = "dimensions"
  /\ attempt' = 1
  /\ UNCHANGED <<quiet,
                 iterVars, wfKind, input, arg, iter, cancelVars, world>>
  /\ UNCHANGED besideWorkflow

\* create_image_file wrote the encoded file and returned its path and size.
CreateImageFileOk ==
  /\ pc = "create_image_file"
  /\ files' = NewFile
  /\ genFile' = Len(files) + 1
  /\ \E n \in 1..MaxParts : partCount' = n
  /\ pc' = "start_upload"
  /\ attempt' = 1
  /\ UNCHANGED <<quiet,
                 w, mp, parts, wfVars, cancelVars, uploads>>
  /\ UNCHANGED besideWorkflow

\* start_s3_multipart_upload returned; the task group schedules every part.
StartUploadOk ==
  /\ pc = "start_upload"
  /\ uploads' = NewUpload
  /\ mp' = Len(uploads) + 1
  /\ parts' = [p \in 1..partCount |-> [st |-> "running", att |-> 1]]
  /\ pc' = "upload_parts"
  /\ attempt' = 1
  /\ UNCHANGED <<quiet,
                 w, genFile, partCount, wfVars, cancelVars, files>>
  /\ UNCHANGED besideWorkflow

\* An upload task that is no longer running (its attempt count is dropped).
Settled(st) == [st |-> st, att |-> 0]

\* Variant: the task group exits as soon as one of its tasks is done.
TaskGroupDoneOnFirst(ps) == \E q \in DOMAIN ps : ps[q].st = "done"

\* `async with asyncio.TaskGroup() as tg:` exits normally when every task
\* created in it is done.
TaskGroupDone(ps) == \A q \in DOMAIN ps : ps[q].st = "done"

\* One upload_s3_part task completed; after the last one the task group
\* exits and finish_s3_multipart_upload is awaited.
PartOk(p) ==
  /\ pc = "upload_parts"
  /\ parts[p].st = "running"
  /\ parts' = [parts EXCEPT ![p] = Settled("done")]
  /\ pc' = IF TaskGroupDone(parts') THEN "finish_upload" ELSE "upload_parts"
  /\ UNCHANGED <<attempt, quiet,
                 w, genFile, partCount, mp, wfVars, cancelVars, world>>
  /\ UNCHANGED besideWorkflow

\* One attempt of a part upload failed and the engine retries it.
PartRetry(p) ==
  /\ pc = "upload_parts"
  /\ parts[p].st = "running"
  /\ parts[p].att < AttemptLimit("upload_parts")
  /\ parts' = [parts EXCEPT ![p].att = @ + 1]
  /\ UNCHANGED <<ctl, w, genFile, partCount, mp, wfVars, cancelVars, world>>
  /\ UNCHANGED besideWorkflow

\* A part upload failed for good (attempts exhausted or never started in
\* time): the task group cancels the other tasks and raises.
PartFail(p) ==
  /\ pc = "upload_parts"
  /\ parts[p].st = "running"
  /\ parts' = [q \in DOMAIN parts |->
                 IF q = p THEN Settled("failed")
                 ELSE IF parts[q].st = "running"
                        THEN Settled("cancelled") ELSE parts[q]]
  /\ Raise("upload_parts", "failed")
  /\ UNCHANGED <<w, genFile, partCount, mp, wfVars, cancelVars, world>>
  /\ UNCHANGED besideWorkflow

\* finish_s3_multipart_upload returned; the finally block runs delete_file.
FinishOk ==
  /\ pc = "finish_upload"
  /\ CanSucceed("finish_upload")
  /\ uploads' = EffectUploads("finish_upload")
  /\ pc' = "delete_file"
  /\ deleteInv' = DeleteFileCall
  /\ attempt' = 1
  /\ UNCHANGED <<pending, lastExc, failAt, failKind, abortInv, timer,
                 iterVars, wfVars, cancelVars, files>>
  /\ UNCHANGED besideWorkflow

\* abort_s3_multipart_upload returned; `raise` re-raises the caught
\* exception and the finally block runs delete_file.
AbortOk ==
  /\ pc = "abort_upload"
  /\ CanSucceed("abort_upload")
  /\ uploads' = EffectUploads("abort_upload")
  /\ pc' = "delete_file"
  /\ deleteInv' = DeleteFileCall
  /\ attempt' = 1
  /\ UNCHANGED <<pending, lastExc, failAt, failKind, abortInv, timer,
                 iterVars, wfVars, cancelVars, files>>
  /\ UNCHANGED besideWorkflow

\* delete_file returned: _run returns the object key, or the exception in
\* flight leaves _run.
DeleteOk ==
  /\ pc = "delete_file"
  /\ CanSucceed("delete_file")
  /\ files' = EffectFiles("delete_file")
  /\ attempt' = 1
  /\ pending' = "none"
  /\ IF pending = "none"
       THEN /\ pc' = "completed"
            /\ result' = "object_key"
            /\ UNCHANGED <<lastExc, timer>>
       ELSE /\ pc' = ShellNext(pending)
            /\ timer' = ShellTimer(pending)
            /\ lastExc' = pending
            /\ UNCHANGED result
  /\ UNCHANGED <<failAt, failKind, abortInv, deleteInv, iterVars,
                 wfKind, input, arg, iter, cancelVars, uploads>>
  /\ UNCHANGED besideWorkflow

(* ------------------------ failures and retries ------------------------- *)
\* An attempt of the current step's activity failed with a retryable error
\* and the engine schedules another attempt. With eff the execution had
\* already done its work (its result was lost: timeout, worker crash).
StepRetry(eff) ==
  /\ pc \in ActivitySteps \ {"upload_parts"}
  /\ attempt < AttemptLimit(pc)
  /\ eff => CanSucceed(pc)
  /\ attempt' = attempt + 1
  /\ uploads' = IF eff THEN EffectUploads(pc) ELSE uploads
  /\ files' = IF eff THEN EffectFiles(pc) ELSE files
  /\ UNCHANGED <<pc, quiet, iterVars, wfVars, cancelVars>>
  /\ UNCHANGED besideWorkflow

\* The engine reports the step as failed: its last allowed attempt failed
\* (with or without having done its work), or it was not started within
\* schedule_to_start_timeout.
StepGiveUp(eff) ==
  /\ pc \in BoundedSteps \ {"upload_parts"}
  /\ eff => (attempt = AttemptLimit(pc) /\ CanSucceed(pc))
  /\ uploads' = IF eff THEN EffectUploads(pc) ELSE uploads
  /\ files' = IF eff THEN EffectFiles(pc) ELSE files
  /\ Raise(pc, "failed")
  /\ UNCHANGED <<iterVars, wfVars, cancelVars>>
  /\ UNCHANGED besideWorkflow

\* The activity raised ApplicationError(non_retryable=True). For the frame
\* download the error comes out of the DownloadFrameFile workflow and the
\* wrapping activity download_frame_file_with_workflow re-raises it as an
\* ordinary exception, which its retry policy retries.
StepNonRetryable ==
  /\ pc \in NonRetryableSteps
  /\ IF pc = "download" /\ attempt < AttemptLimit(pc)
       THEN /\ attempt' = attempt + 1
            /\ UNCHANGED <<pc, quiet>>
       ELSE Raise(pc, "nonretryable")
  /\ UNCHANGED <<iterVars, wfVars, cancelVars, world>>
  /\ UNCHANGED besideWorkflow

(* ---------------------------- cancellation ----------------------------- *)
\* How a cancellation request reaches the coroutine suspended in `step`:
\* as the failure of the cancelled activity, or (when the step's result and
\* the request arrive together, and always in a timer) as
\* asyncio.CancelledError raised at the await.
Surfaces(step) ==
  IF step = "backoff" THEN {"cancel"} ELSE {"cancel", "cancelfail"}

\* The workflow is cancelled while suspended. The execution in flight may
\* or may not have done its work (eff).
Cancel(surf, eff) ==
  /\ ~cancelled
  /\ pc \in ActivitySteps \cup {"backoff"}
  /\ surf \in Surfaces(pc)
  /\ eff => (pc # "backoff" /\ CanSucceed(pc))
  /\ cancelled' = TRUE
  /\ cancelAt' = pc
  /\ uploads' = IF eff THEN EffectUploads(pc) ELSE uploads
  /\ files' = IF eff THEN EffectFiles(pc) ELSE files
  /\ parts' = [q \in DOMAIN parts |->
                 IF pc = "upload_parts" /\ parts[q].st = "running"
                   THEN Settled("cancelled") ELSE parts[q]]
  /\ IF pc = "backoff"
       THEN /\ pc' = "cancelled"
            /\ timer' = 0
            /\ lastExc' = surf
            /\ UNCHANGED <<attempt, pending, failAt, failKind, abortInv, deleteInv>>
       ELSE Raise(pc, surf)
  /\ UNCHANGED <<w, genFile, partCount, mp, wfVars>>
  /\ UNCHANGED besideWorkflow

(* ------------------------------ retry shell ---------------------------- *)
\* `continue`: _run is called again, as iteration n.
RunAgain(n) ==
  /\ pc = "backoff"
  /\ iter' = n
  /\ arg' = ShellArg(input)
  /\ pc' = FirstStep
  /\ timer' = 0
  /\ attempt' = 1
  /\ w' = "none"
  /\ genFile' = 0
  /\ partCount' = 0
  /\ mp' = 0
  /\ parts' = <<>>
  /\ pending' = "none"
  /\ lastExc' = "none"
  /\ failAt' = "none"
  /\ failKind' = "none"
  /\ abortInv' = 0
  /\ deleteInv' = <<>>
  /\ cancelAt' = "none"
  /\ uploads' = <<>>
  /\ files' = <<>>
  /\ UNCHANGED <<wfKind, input, result, cancelled>>
  /\ UNCHANGED besideWorkflow

\* asyncio.sleep(5) elapsed: `continue` calls _run again.
BackoffElapsed == iter < MaxIter /\ RunAgain(iter + 1)

\* The same after MaxIter iterations, which are no longer counted.
BackoffElapsedUncounted == iter = MaxIter /\ RunAgain(iter)

(* ------------------- API callers and workflow identity ----------------- *)
\* Concurrent requests for the same frame / HDU / normalized region, size
\* and format.
Callers == {"c1", "c2"}

\* Endpoint code that starts workflows.
Apis == {"get_frame_dimensions", "get_image"}

\* Variant: the workflow id carries something unique to each request.
WorkflowIdPerRequest(c) == <<api, c>>

\* Variant: the workflow id carries the request's download flags.
WorkflowIdWithFlags(c) ==
  <<api, callers[c].force_download, callers[c].recheck_version>>

\* workflow_id: a function of the request's normalized parameters only, so
\* the same for every caller here.
WorkflowIdOf(c) == <<api, "same-request">>

\* The query parameters an endpoint takes next to reuse_workflow:
\* get_image_information takes force_download and recheck_version, get_image
\* calls it with the defaults.
DownloadFlags(a) == IF a = "get_frame_dimensions" THEN BOOLEAN ELSE {FALSE}

\* The input given to execute_workflow: GetFrameDimensionsInput carries the
\* request's force_download and recheck_version.
WorkflowInput(c) ==
  [force_download |-> callers[c].force_download,
   recheck_version |-> callers[c].recheck_version]

\* id_reuse_policy chosen from reuse_workflow.
IdReusePolicy(reuse) ==
  IF reuse THEN "ALLOW_DUPLICATE_FAILED_ONLY" ELSE "ALLOW_DUPLICATE"

\* get_frame_dimensions first awaits the result of an existing workflow
\* when reuse_workflow is set; get_image goes straight to execute_workflow.
FirstCall(a, reuse) ==
  IF a = "get_frame_dimensions" /\ reuse THEN "cached" ELSE "start"

\* How a run of these workflows can close: the shell never lets it fail.
ClosedStatuses == {"completed", "cancelled", "timed_out"}

\* Runs the engine holds for a workflow id, and the latest of them (0: none).
RunsOf(id) == {r \in DOMAIN runs : runs[r].id = id}
Latest(id) == IF RunsOf(id) = {} THEN 0
              ELSE CHOOSE r \in RunsOf(id) : \A q \in RunsOf(id) : q <= r

\* The engine refuses to start a workflow (WorkflowAlreadyStartedError): a
\* run with the id is open, or the latest one closed and the reuse policy
\* does not allow a duplicate of it.
Refuses(id, policy) ==
  /\ Latest(id) # 0
  /\ \/ runs[Latest(id)].status = "running"
     \/ policy = "ALLOW_DUPLICATE_FAILED_ONLY" /\ runs[Latest(id)].status = "completed"

RegistryInit ==
  /\ api \in Apis
  /\ runs = <<>>
  /\ callers \in [Callers -> {[pc |-> "begin", reuse |-> b, force_download |-> f,
                              recheck_version |-> v, started |-> 0,
                              watch |-> 0, refused |-> 0, got |-> 0] :
                                b \in BOOLEAN, f \in DownloadFlags(api),
                                v \in DownloadFlags(api)}]

\* No caller and no run: the registry while one workflow execution is studied.
RegistryIdle ==
  /\ api = "none"
  /\ runs = <<>>
  /\ callers = <<>>

\* A single untouched workflow execution: while the registry is studied.
WorkflowIdle ==
  /\ WorkflowInit
  /\ wfKind = "CreateImage"
  /\ input = "frame-1"

\* The request reaches the endpoint's first engine call; a result() call on
\* a handle without run id follows the latest run of the workflow id.
Begin(c) ==
  /\ callers[c].pc = "begin"
  /\ LET first == FirstCall(api, callers[c].reuse) IN
     callers' = [callers EXCEPT ![c].pc = first,
                   ![c].watch = IF first = "cached" THEN Latest(WorkflowIdOf(c)) ELSE 0]
  /\ UNCHANGED <<api, runs, besideRegistry>>

\* get_workflow_handle_for(...).result(): the result of a completed run is
\* returned; any exception (no such workflow, run not completed) falls
\* through to execute_workflow.
CachedResult(c) ==
  /\ callers[c].pc = "cached"
  /\ LET r == callers[c].watch IN
     \/ /\ IF r = 0 THEN FALSE ELSE runs[r].status = "completed"
        /\ callers' = [callers EXCEPT ![c].pc = "done", ![c].got = r]
     \/ /\ IF r = 0 THEN TRUE ELSE runs[r].status \in ClosedStatuses \ {"completed"}
        /\ callers' = [callers EXCEPT ![c].pc = "start", ![c].watch = 0]
  /\ UNCHANGED <<api, runs, besideRegistry>>

\* tc.execute_workflow(id=workflow_id, id_reuse_policy=...): the engine
\* starts a run, or raises WorkflowAlreadyStartedError.
Start(c) ==
  /\ callers[c].pc = "start"
  /\ LET id == WorkflowIdOf(c)
         last == Latest(id) IN
     IF Refuses(id, IdReusePolicy(callers[c].reuse))
       THEN /\ callers' = [callers EXCEPT ![c].pc = "existing",
                             ![c].refused = IF runs[last].status = "running" THEN last ELSE 0]
            /\ UNCHANGED runs
       ELSE /\ runs' = Append(runs, [id |-> id, status |-> "running",
                                     input |-> WorkflowInput(c)])
            /\ callers' = [callers EXCEPT ![c].pc = "own",
                             ![c].started = Len(runs) + 1, ![c].watch = Len(runs) + 1]
  /\ UNCHANGED <<api, besideRegistry>>

\* except WorkflowAlreadyStartedError: get_workflow_handle_for(...).result()
\* is called and follows the latest run of the id.
BindExisting(c) ==
  /\ callers[c].pc = "existing"
  /\ callers[c].watch = 0
  /\ callers' = [callers EXCEPT ![c].watch = Latest(WorkflowIdOf(c))]
  /\ UNCHANGED <<api, runs, besideRegistry>>

\* result() of the awaited run: its output, or an error if it did not complete.
AwaitResult(c) ==
  /\ callers[c].pc \in {"own", "existing"}
  /\ callers[c].watch # 0
  /\ LET r == callers[c].watch IN
     /\ runs[r].status \in ClosedStatuses
     /\ callers' = IF runs[r].status = "completed"
                     THEN [callers EXCEPT ![c].pc = "done", ![c].got = r]
                     ELSE [callers EXCEPT ![c].pc = "error"]
  /\ UNCHANGED <<api, runs, besideRegistry>>

\* A run closes: the workflow returned, was cancelled, or hit the
\* execution_timeout given to execute_workflow.
RunCloses(r, status) ==
  /\ runs[r].status = "running"
  /\ status \in ClosedStatuses
  /\ runs' = [runs EXCEPT ![r].status = status]
  /\ UNCHANGED <<api, callers, besideRegistry>>

RegistryNext ==
  \/ \E c \in Callers : Begin(c)
  \/ \E c \in Callers : CachedResult(c)
  \/ \E c \in Callers : Start(c)
  \/ \E c \in Callers : BindExisting(c)
  \/ \E c \in Callers : AwaitResult(c)
  \/ \E r \in DOMAIN runs, status \in ClosedStatuses : RunCloses(r, status)

(* ------------- frame archive, frame caches and image outputs ----------- *)
\* Versions of the frame that the archive publishes over time.
MaxVersion == 2
\* Successful CreateImage runs explored.
MaxRuns == 2

\* CreateImageInput values: frame_id, hdu_index, pixel_region <<x, y, w, h>>,
\* pixel_size <<width, height>>, fmt.
ImageInputs ==
  [frame_id : {"frame-1"}, hdu_index : {0}, pixel_region : {<<0, 0, 2, 2>>},
   pixel_size : {<<2, 2>>, <<1, 1>>}, fmt : {"png", "jpg"}]

\* The bytes of the file the archive serves for a version of the frame.
FrameBytes(frame_id, version) == <<"fits", frame_id, version>>

\* `if fmt == "jpg": fmt = "jpeg"`
EncoderFormat(fmt) == IF fmt = "jpg" THEN "jpeg" ELSE fmt

\* _create_image_threaded: the bytes saved to the temp file are the HDU of
\* the FITS file, scaled, cropped, resized and encoded.
EncodedBytes(fits, i) ==
  <<"image", fits, i.hdu_index, i.pixel_region, i.pixel_size, EncoderFormat(i.fmt)>>

\* file_digest(fobj, "sha256").hexdigest()
FileDigest(bytes) == <<"sha256", bytes>>

\* object_key = f"generated/{generated_img.sha256}"; returned as
\* finshed_upload.object_key.
ObjectKey(generated_img, i) == <<"generated", generated_img.sha256>>

\* download_frame_file on worker q: the version of the file it returns.
\* With neither flag set and a `latest` alias present the aliased file is
\* returned; otherwise the archive's newest version is looked up.
DownloadedVersion(q, force_download, recheck_version) ==
  IF ~force_download /\ ~recheck_version /\ cache[q].latest # 0
    THEN cache[q].latest
    ELSE archive

\* download_frame_file on worker q: the worker's cache afterwards. A version
\* already completed is returned as it is unless force_download; a download
\* moves the file into place and repoints the `latest` alias.
CacheAfterDownload(q, force_download, recheck_version) ==
  IF ~force_download /\ ~recheck_version /\ cache[q].latest # 0
    THEN cache[q]
    ELSE IF ~force_download /\ archive \in cache[q].versions
           THEN cache[q]
           ELSE [versions |-> cache[q].versions \cup {archive}, latest |-> archive]

FramesInit ==
  /\ archive = 1
  /\ cache = [q \in Workers |-> [versions |-> {}, latest |-> 0]]
  /\ images = <<>>

\* No archive, cache or run: while another component is studied.
FramesIdle ==
  /\ archive = 0
  /\ cache = <<>>
  /\ images = <<>>

\* The archive publishes a new version of the frame (version_set[0] changes).
PublishVersion ==
  /\ archive < MaxVersion
  /\ archive' = archive + 1
  /\ UNCHANGED <<cache, images>>
  /\ UNCHANGED besideFrames

\* A DownloadFrameFile workflow runs on worker q for a dimensions pipeline,
\* with that request's force_download / recheck_version.
FrameDownload(q, force_download, recheck_version) ==
  /\ cache' = [cache EXCEPT ![q] = CacheAfterDownload(q, force_download, recheck_version)]
  /\ cache' # cache
  /\ UNCHANGED <<archive, images>>
  /\ UNCHANGED besideFrames

\* One CreateImage run that succeeds on worker q: the frame file is fetched
\* with force_download=False and recheck_version=False, the image is encoded
\* from it, uploaded under its object key, and the key is returned.
CreateImageRun(q, i) ==
  /\ Len(images) < MaxRuns
  /\ LET version == DownloadedVersion(q, FALSE, FALSE)
         bytes == EncodedBytes(FrameBytes(i.frame_id, version), i)
         generated_img == [sha256 |-> FileDigest(bytes)]
     IN  images' = Append(images, [input |-> i, worker |-> q, version |-> version,
                                   bytes |-> bytes,
                                   s3_object_key |-> ObjectKey(generated_img, i)])
  /\ cache' = [cache EXCEPT ![q] = CacheAfterDownload(q, FALSE, FALSE)]
  /\ UNCHANGED archive
  /\ UNCHANGED besideFrames

FramesNext ==
  \/ PublishVersion
  \/ \E q \in Workers, f \in BOOLEAN, r \in BOOLEAN : FrameDownload(q, f, r)
  \/ \E q \in Workers, i \in ImageInputs : CreateImageRun(q, i)

(* ------------------- region and size normalization --------------------- *)
\* Largest width / height of the small images explored.
MaxDim == 3

\* An absent limit (max_width, max_height, max_area: `int | None`).
None == 0
\* `info.max_width or 0`
OrZero(v) == IF v = None THEN 0 ELSE v

Min(a, b) == IF a <= b THEN a ELSE b
Max(a, b) == IF a >= b THEN a ELSE b

\* Python's round() of the non-negative number num/den: to the nearest
\* integer, a tie to the even one.
RoundHalfEven(num, den) ==
  LET q == num \div den
      r == num % den
  IN  IF 2 * r < den THEN q
      ELSE IF 2 * r > den THEN q + 1
      ELSE IF q % 2 = 0 THEN q ELSE q + 1

\* Decimal numbers of a path parameter (percentages) are counted in
\* hundredths: Pct(50) is 50.0, 25 is 0.25.
Pct(n) == 100 * n

\* Width and height of the frame's HDU: small images and a 200 x 100 one.
ImageDims == ((1..MaxDim) \X (1..MaxDim)) \cup {<<200, 100>>}

\* The limits an ImageInfoResponse can declare for an image of w x h.
LimitsOf(iw, ih) ==
  {<<None, None, None>>, <<iw, ih, None>>, <<iw, None, None>>,
   <<1, 1, None>>, <<iw, ih, 2>>}

ImageInfos ==
  UNION {{[width |-> d[1], height |-> d[2],
           max_width |-> l[1], max_height |-> l[2], max_area |-> l[3]] :
            l \in LimitsOf(d[1], d[2])} : d \in ImageDims}

\* Region path parameters that pass the route's validation: full, square,
\* x,y,w,h and pct:x,y,w,h.
Regions ==
  [kind : {"FullRegion", "SquareRegion"}, x : {0}, y : {0}, w : {0}, h : {0}]
  \cup [kind : {"PixelRegion"}, x : {0, 1, MaxDim + 1}, y : {0, MaxDim + 1},
        w : {1, 2, MaxDim + 1}, h : {1, 2}]
  \cup [kind : {"PercentRegion"}, x : {0, 50, Pct(50)}, y : {0, Pct(50)},
        w : {25, 50, Pct(50), Pct(100)}, h : {50, Pct(50)}]

\* Size path parameters matching the patterns of SizePathParam.
Sizes ==
  [kind : {"MaxSize"}, upscaleable : BOOLEAN, width : {0}, height : {0}, percent : {0}]
  \cup [kind : {"FixedWidthSize"}, upscaleable : BOOLEAN, width : {0, 1, 2, 100},
        height : {0}, percent : {0}]
  \cup [kind : {"FixedHeightSize"}, upscaleable : BOOLEAN, width : {0},
        height : {0, 1, 2, 100}, percent : {0}]
  \cup [kind : {"PercentSize"}, upscaleable : BOOLEAN, width : {0}, height : {0},
        percent : {Pct(25), Pct(50), Pct(100), Pct(150)}]
  \cup [kind : {"PixelSize"}, upscaleable : BOOLEAN, width : {0, 1, 2},
        height : {0, 1, 2}, percent : {0}]
  \cup [kind : {"PreservedAspectPixelSize"}, upscaleable : BOOLEAN,
        width : {1, 2, 100}, height : {1, 2, 40, 100}, percent : {0}]

\* Outcomes: a PixelRegion, a PixelSize, or the exception raised.
\*   "validation_error"       pydantic ValidationError (not an HTTPException)
\*   "region_out_of_bounds"   HTTPException(400)
\*   "upscaling_unsupported"  HTTPException(501)
\*   "..._exceeds_..."        HTTPException(400) of the size checks
RegionOk(px, py, pw, ph) ==
  [status |-> "ok", error |-> "none", x |-> px, y |-> py, w |-> pw, h |-> ph]
RegionError(e) ==
  [status |-> "error", error |-> e, x |-> 0, y |-> 0, w |-> 0, h |-> 0]
SizeOk(width, height) ==
  [status |-> "ok", error |-> "none", width |-> width, height |-> height]
SizeError(e) ==
  [status |-> "error", error |-> e, width |-> 0, height |-> 0]

\* Field constraints of schema.PixelRegion / schema.PercentRegion.
ValidRegion(org) ==
  CASE org.kind = "PixelRegion" -> org.x >= 0 /\ org.y >= 0 /\ org.w >= 1 /\ org.h >= 1
    [] org.kind = "PercentRegion" -> org.x >= 0 /\ org.y >= 0 /\ org.w > 0 /\ org.h > 0
    [] OTHER -> TRUE

\* PixelRegion(x=..., y=..., w=..., h=...): the constructor validates.
NewPixelRegion(px, py, pw, ph) ==
  IF px >= 0 /\ py >= 0 /\ pw >= 1 /\ ph >= 1
    THEN RegionOk(px, py, pw, ph) ELSE RegionError("validation_error")

\* normalize_region(region, info)
normalize_region(org, inf) ==
  IF ~ValidRegion(org) THEN RegionError("validation_error")
  ELSE
    LET norm ==
          CASE org.kind = "PixelRegion" -> RegionOk(org.x, org.y, org.w, org.h)
            [] org.kind = "FullRegion" -> NewPixelRegion(0, 0, inf.width, inf.height)
            [] org.kind = "SquareRegion" ->
                 LET shorter == Min(inf.width, inf.height)
                     center_x == inf.width \div 2
                     center_y == inf.height \div 2
                 IN  NewPixelRegion(center_x, center_y, shorter, shorter)
            [] org.kind = "PercentRegion" ->
                 NewPixelRegion(RoundHalfEven(inf.width * org.x, 100),
                                RoundHalfEven(inf.height * org.y, 100),
                                RoundHalfEven(inf.width * org.w, 100),
                                RoundHalfEven(inf.height * org.h, 100))
    IN  IF norm.status = "error" THEN norm
        ELSE IF norm.x > inf.width \/ norm.y > inf.height
               THEN RegionError("region_out_of_bounds")
               ELSE norm

\* Field constraints of the Size models of schema.py.
ValidSize(org) ==
  CASE org.kind = "MaxSize" -> TRUE
    [] org.kind = "FixedWidthSize" -> org.width >= 1
    [] org.kind = "FixedHeightSize" -> org.height >= 1
    [] org.kind = "PercentSize" -> org.percent > 0 /\ org.percent <= Pct(100)
    [] org.kind = "PixelSize" -> org.width >= 1 /\ org.height >= 1
    [] org.kind = "PreservedAspectPixelSize" -> org.width >= 1 /\ org.height >= 1

\* PixelSize(upscaleable=False, width=..., height=...): the constructor validates.
NewPixelSize(width, height) ==
  IF width >= 1 /\ height >= 1
    THEN SizeOk(width, height) ELSE SizeError("validation_error")

\* FixedWidthSize(upscaleable=False, width=...), FixedHeightSize(..., height=...)
FixedWidthSize(width) ==
  [kind |-> "FixedWidthSize", upscaleable |-> FALSE, width |-> width,
   height |-> 0, percent |-> 0]
FixedHeightSize(height) ==
  [kind |-> "FixedHeightSize", upscaleable |-> FALSE, width |-> 0,
   height |-> height, percent |-> 0]

\* HTTPException(400) of a size check; its detail quotes the computed size.
SizeRejected(e, norm) ==
  [status |-> "error", error |-> e, width |-> norm.width, height |-> norm.height]

\* Variant: the area limit is not enforced.
SizeChecksWithoutArea(norm, reg, inf) ==
  IF norm.width > reg.w THEN SizeRejected("width_exceeds_region", norm)
  ELSE IF norm.height > reg.h THEN SizeRejected("height_exceeds_region", norm)
  ELSE IF inf.max_width # None /\ norm.width > inf.max_width
         THEN SizeRejected("width_exceeds_max_width", norm)
  ELSE IF inf.max_height # None /\ norm.height > inf.max_height
         THEN SizeRejected("height_exceeds_max_height", norm)
  ELSE norm

\* The checks of normalize_size on the computed size, in their order.
SizeChecks(norm, reg, inf) ==
  IF norm.width > reg.w THEN SizeRejected("width_exceeds_region", norm)
  ELSE IF norm.height > reg.h THEN SizeRejected("height_exceeds_region", norm)
  ELSE IF inf.max_width # None /\ norm.width > inf.max_width
         THEN SizeRejected("width_exceeds_max_width", norm)
  ELSE IF inf.max_height # None /\ norm.height > inf.max_height
         THEN SizeRejected("height_exceeds_max_height", norm)
  ELSE IF inf.max_area # None /\ norm.width * norm.height > inf.max_area
         THEN SizeRejected("area_exceeds_max_area", norm)
  ELSE norm

\* `norm_max_w.width * norm_max_w.height >= norm_max_h.width * norm_max_h.width`
WidthCandidateWins(norm_max_w, norm_max_h) ==
  norm_max_w.width * norm_max_w.height >= norm_max_h.width * norm_max_h.width

\* normalize_size(size, region, info). region_aspect = region.w / region.h;
\* x / region_aspect is x * region.h / region.w.
RECURSIVE normalize_size(_, _, _)
normalize_size(org, reg, inf) ==
  IF ~ValidSize(org) THEN SizeError("validation_error")
  ELSE IF org.upscaleable THEN SizeError("upscaling_unsupported")
  ELSE
    LET norm ==
          CASE org.kind = "PixelSize" -> SizeOk(org.width, org.height)
            [] org.kind = "MaxSize" ->
                 NewPixelSize(Max(reg.w, OrZero(inf.max_width)),
                              Max(reg.h, OrZero(inf.max_height)))
            [] org.kind = "FixedWidthSize" ->
                 NewPixelSize(org.width, RoundHalfEven(org.width * reg.h, reg.w))
            [] org.kind = "FixedHeightSize" ->
                 NewPixelSize(RoundHalfEven(org.height * reg.w, reg.h), org.height)
            [] org.kind = "PercentSize" ->
                 NewPixelSize(RoundHalfEven(reg.w * org.percent, 100 * 100),
                              RoundHalfEven(reg.h * org.percent, 100 * 100))
            [] org.kind = "PreservedAspectPixelSize" ->
                 LET norm_max_w ==
                       normalize_size(
                         FixedWidthSize(Min(org.width, Min(reg.w, OrZero(inf.max_width)))),
                         reg, inf)
                     norm_max_h ==
                       normalize_size(
                         FixedHeightSize(Min(org.height, Min(reg.h, OrZero(inf.max_height)))),
                         reg, inf)
                 IN  IF norm_max_w.status = "error" THEN norm_max_w
                     ELSE IF norm_max_h.status = "error" THEN norm_max_h
                     ELSE IF WidthCandidateWins(norm_max_w, norm_max_h)
                            THEN norm_max_w ELSE norm_max_h
    IN  IF norm.status = "error" THEN norm ELSE SizeChecks(norm, reg, inf)

\* Nothing normalized yet / no size received yet / no workflow started yet.
Pending == [status |-> "pending", error |-> "none"]
NoSize == [kind |-> "none"]
NotCalled == [id |-> ""]

\* frame_id, hdu_index and format path parameters of the requests explored.
FrameIds == {"1", "11"}
HduIndexes == {1, 11}
ImageFormats == {"png", "jpg"}

\* PixelRegion.__str__: f"{self.x},{self.y},{self.w},{self.h}"
PixelRegionStr(r) ==
  ToString(r.x) \o "," \o ToString(r.y) \o "," \o ToString(r.w) \o "," \o ToString(r.h)

\* PixelSize.__str__: f"{up}{self.width},{self.height}"; up is "" for the
\* sizes normalize_size returns (none is upscaleable).
PixelSizeStr(s) == ToString(s.width) \o "," \o ToString(s.height)

\* Variant: frame_id and hdu_index are rendered without a separator.
CreateImageWorkflowIdJoined(frame_id, hdu, reg, sz, rotation, quality, fmt) ==
  "CreateImage:" \o frame_id \o ToString(hdu) \o "/" \o PixelRegionStr(reg)
    \o "/" \o PixelSizeStr(sz) \o "/" \o rotation \o "/" \o quality \o "." \o fmt

\* f"CreateImage:{frame_id}/{hdu_index}/{norm_region}/{norm_size}/{rotation}/{quality}.{fmt}"
CreateImageWorkflowId(frame_id, hdu, reg, sz, rotation, quality, fmt) ==
  "CreateImage:" \o frame_id \o "/" \o ToString(hdu) \o "/" \o PixelRegionStr(reg)
    \o "/" \o PixelSizeStr(sz) \o "/" \o rotation \o "/" \o quality \o "." \o fmt

NormalizeInit ==
  /\ info \in ImageInfos
  /\ region \in Regions
  /\ norm_region = Pending
  /\ size = NoSize
  /\ norm_size = Pending
  /\ create_image = NotCalled

\* No request: while another component is studied.
NormalizeIdle ==
  /\ info = [width |-> 0]
  /\ region = [kind |-> "none"]
  /\ norm_region = Pending
  /\ size = NoSize
  /\ norm_size = Pending
  /\ create_image = NotCalled

\* norm_region = normalize_region(region, info)
NormalizeRegion ==
  /\ norm_region.status = "pending"
  /\ norm_region' = normalize_region(region, info)
  /\ UNCHANGED <<info, region, size, norm_size, create_image>>
  /\ UNCHANGED besideNormalize

\* norm_size = normalize_size(size, norm_region, info), for the request's
\* size parameter.
NormalizeSize(org) ==
  /\ norm_region.status = "ok"
  /\ norm_size.status = "pending"
  /\ size' = org
  /\ norm_size' = normalize_size(org, norm_region, info)
  /\ UNCHANGED <<info, region, norm_region, create_image>>
  /\ UNCHANGED besideNormalize

\* get_image builds the workflow id of the request from the path
\* parameters and the normalized region and size, and starts CreateImage.
ExecuteCreateImage(frame_id, hdu, fmt) ==
  /\ norm_size.status = "ok"
  /\ create_image = NotCalled
  /\ create_image' =
       [frame_id |-> frame_id, hdu_index |-> hdu, fmt |-> fmt,
        id |-> CreateImageWorkflowId(frame_id, hdu, norm_region, norm_size,
                                     "0", "default", fmt)]
  /\ UNCHANGED <<info, region, norm_region, size, norm_size>>
  /\ UNCHANGED besideNormalize

NormalizeNext ==
  \/ NormalizeRegion
  \/ \E org \in Sizes : NormalizeSize(org)
  \/ \E frame_id \in FrameIds, hdu \in HduIndexes, fmt \in ImageFormats :
       ExecuteCreateImage(frame_id, hdu, fmt)

(* ------------------- the part uploads of one encoded file -------------- *)
\* Largest part count explored for one file.
MaxPartCount == 4

\* part_size = 5 * 1024 * 1024
PartSize == 5 * 1024 * 1024

\* File sizes around the multiples of the part size.
FileSizes ==
  {k * PartSize + d : k \in 0..(MaxPartCount - 1),
                      d \in {1, 2, PartSize \div 2, PartSize - 1, PartSize}}

\* part_count = ceil(generated_img.file_size / part_size)
PartCount(nbytes) == (nbytes + PartSize - 1) \div PartSize

\* The UploadS3PartInput built for loop index part_i.
PartInput(part_i) ==
  [file_size |-> file_size, file_offset |-> PartSize * part_i,
   part_size |-> PartSize, part_number |-> part_i + 1]

\* Variant: every part declares a whole part.
ContentLengthWholePart(i) == i.part_size

\* upload_s3_part: the content-length header of the PUT.
ContentLength(i) ==
  IF i.file_offset + i.part_size > i.file_size
    THEN i.file_size - i.file_offset
    ELSE i.part_size

\* Attempts of task t's activity that have failed so far.
FailuresOf(t) == IF t \in DOMAIN part_failures THEN part_failures[t] ELSE 0

\* resp.headers["ETag"]: the store's tag for the PUT of one attempt.
ETagOf(part_number, attempt_no) == <<"etag", part_number, attempt_no>>

\* UploadS3PartOutput(etag=etag, part_number=i.part_number)
PartOutput(t) ==
  [etag |-> ETagOf(upload_tasks[t].part_number, FailuresOf(t) + 1),
   part_number |-> upload_tasks[t].part_number]

\* Variant: the results are collected in the order of completion.
UploadedPartsAsCompleted ==
  [k \in 1..Len(completion) |-> upload_results[completion[k]]]

\* uploaded_parts = [t.result() for t in upload_tasks]
UploadedParts == [k \in 1..Len(upload_tasks) |-> upload_results[k]]

PartsInit ==
  /\ file_size \in FileSizes
  /\ upload_tasks = <<>>
  /\ put_requests = <<>>
  /\ part_failures = <<>>
  /\ upload_results = <<>>
  /\ completion = <<>>
  /\ uploaded_parts = <<>>

\* No file is being uploaded: while another component is studied.
PartsIdle ==
  /\ file_size = 0
  /\ upload_tasks = <<>>
  /\ put_requests = <<>>
  /\ part_failures = <<>>
  /\ upload_results = <<>>
  /\ completion = <<>>
  /\ uploaded_parts = <<>>

\* One pass of `for part_i in range(part_count)`: a task is created.
CreateTask ==
  /\ Len(upload_tasks) < PartCount(file_size)
  /\ upload_tasks' = Append(upload_tasks, PartInput(Len(upload_tasks)))
  /\ UNCHANGED <<file_size, put_requests>>
  /\ UNCHANGED <<part_failures, upload_results, completion, uploaded_parts>>
  /\ UNCHANGED besideParts

\* The loop is over and the task group runs its tasks: upload_s3_part sends
\* the PUT of task t.
UploadPart(t) ==
  /\ Len(upload_tasks) = PartCount(file_size)
  /\ t \in DOMAIN upload_tasks
  /\ upload_tasks[t].part_number \notin DOMAIN put_requests
  /\ put_requests' =
       [n \in DOMAIN put_requests \cup {upload_tasks[t].part_number} |->
          IF n \in DOMAIN put_requests THEN put_requests[n]
          ELSE ContentLength(upload_tasks[t])]
  /\ UNCHANGED <<file_size, upload_tasks>>
  /\ UNCHANGED <<part_failures, upload_results, completion, uploaded_parts>>
  /\ UNCHANGED besideParts

\* An attempt of task t's upload_s3_part fails after its PUT was sent (the
\* response is lost or is an error) and the engine starts the next attempt,
\* which sends the same request again.
PartAttemptFails(t) ==
  /\ t \in DOMAIN upload_tasks
  /\ t \notin DOMAIN upload_results
  /\ upload_tasks[t].part_number \in DOMAIN put_requests
  /\ FailuresOf(t) < MaximumAttempts - 1
  /\ part_failures' =
       [n \in DOMAIN part_failures \cup {t} |-> IF n = t THEN FailuresOf(t) + 1
                                                ELSE part_failures[n]]
  /\ UNCHANGED <<file_size, upload_tasks, put_requests,
                 upload_results, completion, uploaded_parts>>
  /\ UNCHANGED besideParts

\* The PUT of task t's current attempt is answered: upload_s3_part returns
\* the ETag with the part number, and the task is done.
PartReturns(t) ==
  /\ t \in DOMAIN upload_tasks
  /\ t \notin DOMAIN upload_results
  /\ upload_tasks[t].part_number \in DOMAIN put_requests
  /\ upload_results' =
       [n \in DOMAIN upload_results \cup {t} |-> IF n = t THEN PartOutput(t)
                                                 ELSE upload_results[n]]
  /\ completion' = Append(completion, t)
  /\ UNCHANGED <<file_size, upload_tasks, put_requests, part_failures, uploaded_parts>>
  /\ UNCHANGED besideParts

\* Every task is done: the task group exits, the results are collected and
\* finish_s3_multipart_upload is invoked with them.
FinishUpload ==
  /\ Len(upload_tasks) = PartCount(file_size)
  /\ DOMAIN upload_results = DOMAIN upload_tasks
  /\ uploaded_parts = <<>>
  /\ uploaded_parts' = UploadedParts
  /\ UNCHANGED <<file_size, upload_tasks, put_requests, part_failures,
                 upload_results, completion>>
  /\ UNCHANGED besideParts

PartsNext ==
  \/ CreateTask
  \/ \E t \in DOMAIN upload_tasks : UploadPart(t)
  \/ \E t \in DOMAIN upload_tasks : PartAttemptFails(t)
  \/ \E t \in DOMAIN upload_tasks : PartReturns(t)
  \/ FinishUpload

(* ------------- the worker's task-queue file and its processes ---------- *)
\* Times a worker process is terminated and started again.
MaxRestarts == 2

\* Worker processes started on one working directory.
Procs == {"p1", "p2"}

\* File content before write_text has written: no file / an empty file.
Absent == <<"absent">>
Empty == <<"">>
\* The local q of a process that has not read or drawn a token.
NoToken == <<"none">>

\* q = f"worker/{uuid4()}": a value never drawn before.
NewToken == <<"worker", uuids + 1>>

TokenInit ==
  /\ token_file = Absent
  /\ procs = [p \in Procs |-> [pc |-> "down", q |-> NoToken, restarts |-> 0]]
  /\ uuids = 0
  /\ written = {}
  /\ resolved = {}

\* No working directory: while another component is studied.
TokenIdle ==
  /\ token_file = Absent
  /\ procs = <<>>
  /\ uuids = 0
  /\ written = {}
  /\ resolved = {}

\* run_worker starts and calls generate_worker_specific_task_queue.
StartProcess(p) ==
  /\ procs[p].pc = "down"
  /\ procs' = [procs EXCEPT ![p].pc = "read_text"]
  /\ UNCHANGED <<token_file, uuids, written, resolved>>
  /\ UNCHANGED besideToken

\* `q = file_path.read_text()`: the content is the token and the exclusive
\* worker is created on it; `except FileNotFoundError:` a new token is drawn.
ReadText(p) ==
  /\ procs[p].pc = "read_text"
  /\ IF token_file = Absent
       THEN /\ procs' = [procs EXCEPT ![p].pc = "write_text", ![p].q = NewToken]
            /\ uuids' = uuids + 1
       ELSE /\ procs' = [procs EXCEPT ![p].pc = "listening", ![p].q = token_file]
            /\ UNCHANGED uuids
  /\ UNCHANGED <<token_file, written, resolved>>
  /\ UNCHANGED besideToken

\* file_path.write_text(q) opens the file for writing: it is created, or
\* truncated if it exists.
WriteTextOpen(p) ==
  /\ procs[p].pc = "write_text"
  /\ token_file' = Empty
  /\ procs' = [procs EXCEPT ![p].pc = "write"]
  /\ UNCHANGED <<uuids, written, resolved>>
  /\ UNCHANGED besideToken

\* file_path.write_text(q) writes q; the function returns q and the
\* exclusive worker is created on task_queue = q.
WriteTextWrite(p) ==
  /\ procs[p].pc = "write"
  /\ token_file' = procs[p].q
  /\ written' = written \cup {procs[p].q}
  /\ procs' = [procs EXCEPT ![p].pc = "listening"]
  /\ UNCHANGED <<uuids, resolved>>
  /\ UNCHANGED besideToken

\* The process is terminated (crash, restart, reload on a source change).
Terminate(p) ==
  /\ procs[p].pc # "down"
  /\ procs[p].restarts < MaxRestarts
  /\ procs' = [procs EXCEPT ![p] = [pc |-> "down", q |-> NoToken,
                                     restarts |-> @.restarts + 1]]
  /\ UNCHANGED <<token_file, uuids, written, resolved>>
  /\ UNCHANGED besideToken

\* find_best_worker, executed by process p: get_worker_specific_task_queue
\* reads the file and the content is returned as task_queue.
FindBestWorker(p) ==
  /\ procs[p].pc = "listening"
  /\ token_file # Absent
  /\ resolved' = resolved \cup {<<token_file, procs[p].q>>}
  /\ UNCHANGED <<token_file, procs, uuids, written>>
  /\ UNCHANGED besideToken

TokenNext ==
  \/ \E p \in Procs : StartProcess(p)
  \/ \E p \in Procs : ReadText(p)
  \/ \E p \in Procs : WriteTextOpen(p)
  \/ \E p \in Procs : WriteTextWrite(p)
  \/ \E p \in Procs : Terminate(p)
  \/ \E p \in Procs : FindBestWorker(p)

(* ------------------ reading an HDU of a FITS file ---------------------- *)
\* Most HDUs in one file.
MaxHdus == 2

\* len(hdu.shape) of an HDU: 0 for a header without data, 2 for an image.
Ndims == 0..3

\* The files: their HDUs in order, each by its number of dimensions.
FitsFiles == UNION {[1..n -> Ndims] : n \in 1..MaxHdus}

\* What an activity execution ends with: its output, an
\* ApplicationError(non_retryable=True), or any other exception (which the
\* engine retries under the call's retry policy).
ActivityOk == [status |-> "ok", error |-> "none", non_retryable |-> FALSE]
NonRetryableError(e) == [status |-> "error", error |-> e, non_retryable |-> TRUE]
OtherException(e) == [status |-> "error", error |-> e, non_retryable |-> FALSE]
NotRun == [status |-> "pending", error |-> "none", non_retryable |-> FALSE]

\* _get_hdu: `hdus[hdu_index]`, IndexError for an index past the last HDU.
HasHdu(hdus, idx) == idx + 1 \in DOMAIN hdus

\* _get_hdu_dimensions: the outcomes of one execution.
GetHduDimensionsOutcomes(hdus, idx) ==
  IF ~HasHdu(hdus, idx) THEN {NonRetryableError("hdu_index_not_found")}
  ELSE IF hdus[idx + 1] # 2 THEN {NonRetryableError("invalid_number_of_dimensions")}
  ELSE {ActivityOk}

\* _create_image_threaded: the outcomes of one execution. The number of
\* dimensions is not examined: hdu.data is scaled, sliced as
\* data[y:y+h, x:x+w] and given to Image.fromarray, which raise for data
\* that is absent or one-dimensional, and for data of three dimensions
\* either raise or take the last axis for colour bands.
CreateImageOutcomes(hdus, idx) ==
  IF ~HasHdu(hdus, idx) THEN {NonRetryableError("hdu_index_not_found")}
  ELSE IF hdus[idx + 1] = 2 THEN {ActivityOk}
  ELSE IF hdus[idx + 1] < 2 THEN {OtherException("exception")}
  ELSE {OtherException("exception"), ActivityOk}

HduInit ==
  /\ fits_hdus \in FitsFiles
  /\ hdu_index \in 0..MaxHdus
  /\ dims_result = NotRun
  /\ image_result = NotRun

\* No file: while another component is studied.
HduIdle ==
  /\ fits_hdus = <<>>
  /\ hdu_index = 0
  /\ dims_result = NotRun
  /\ image_result = NotRun

\* get_hdu_dimensions(fits_path, hdu_index) is executed.
GetHduDimensions ==
  /\ dims_result = NotRun
  /\ dims_result' \in GetHduDimensionsOutcomes(fits_hdus, hdu_index)
  /\ UNCHANGED <<fits_hdus, hdu_index, image_result>>
  /\ UNCHANGED besideHdu

\* create_image_file(fits_path, hdu_index, ...) is executed.
CreateImageFile ==
  /\ image_result = NotRun
  /\ image_result' \in CreateImageOutcomes(fits_hdus, hdu_index)
  /\ UNCHANGED <<fits_hdus, hdu_index, dims_result>>
  /\ UNCHANGED besideHdu

HduNext ==
  \/ GetHduDimensions
  \/ CreateImageFile

(* --------- one worker's frame cache and download_frame_file ------------ *)
\* Executions of download_frame_file explored on the worker.
MaxExecs == 2

\* Pipelines whose fetch step runs download_frame_file_with_workflow for
\* the same frame on the same worker; d1 is the one that calls first.
Fetchers == {"d1", "d2"}

\* <<force_download, recheck_version>> of a request; with force_download
\* the code never reads recheck_version.
FetchModes == {<<FALSE, FALSE>>, <<FALSE, TRUE>>, <<TRUE, FALSE>>}

\* working_dir of the configuration: an absolute or a relative path.
WorkingDirs == {"absolute", "relative"}

\* The ids of the versions of the frame: the one the archive serves at the
\* start and the one it publishes next.
Versions == {1, 2}

\* No `latest` alias / the link created by
\* symlink(location.parent, latest_version_dir): the directory the link's
\* target string resolves to. The string is location.parent as built from
\* working_dir; a relative one is resolved against the directory of the
\* link itself, where no such directory exists.
NoAlias == [area |-> "none", version |-> 0, base |-> "none"]
SymlinkTarget(version) ==
  [area |-> "completed", version |-> version,
   base |-> IF working_dir = "absolute" THEN "working_dir" ELSE "alias_dir"]

\* The files of the directory a link resolves to (no directory: {}).
DirOf(l) ==
  IF l.base = "working_dir" /\ l.area = "completed" /\ l.version \in Versions
    THEN completed_files[l.version] ELSE {}

\* aiofiles.os.path.exists(latest_version_dir): the link exists and what it
\* points to exists. A version directory exists once a file was moved in.
AliasExists == latest # NoAlias /\ DirOf(latest) # {}

\* Variant: only an empty aliased directory is an invalid cache state.
AliasDirInvalidIfEmpty(names) == names = {}

\* `if len(latest_version_dir_files) != 1:`
AliasDirInvalid(names) == Cardinality(names) # 1

\* `if not i.force_download and not i.recheck_version and ...exists(...)`
UsesAlias(x) == ~x.force_download /\ ~x.recheck_version /\ AliasExists

\* What the GET of /frames/<frame_id>/ can end with.
MetadataResponses ==
  {"ok", "network_error", "client_error", "server_error", "malformed"}

\* The error download_frame_file raises for a metadata response, with its
\* non_retryable flag: a response that is neither a success nor a server
\* error raises "Failed to fetch frame info" (non_retryable=True); a server
\* error passes that test and, like a malformed body, fails in the parsing
\* block, which raises "Failed to parse frame metadata"
\* (non_retryable=False); an exception of the HTTP client is not caught
\* ("exception": any exception that is not an ApplicationError).
MetadataError(resp) ==
  CASE resp = "client_error" -> [error |-> "fetch_failed", non_retryable |-> TRUE]
    [] resp \in {"server_error", "malformed"} ->
         [error |-> "parse_failed", non_retryable |-> FALSE]
    [] resp = "network_error" -> [error |-> "exception", non_retryable |-> FALSE]
    [] OTHER -> [error |-> "none", non_retryable |-> FALSE]

\* Chunks of the body of one download, in the order the stream yields them.
MaxChunks == 2
Chunks == 1..MaxChunks

\* A file on the worker's disk: the area its name is in ("inprogress",
\* "completed", or "gone" once its name was replaced), the <<version, name>>
\* of its path, and the chunks of the body it holds.
NewInode(area, file, chunks) == [area |-> area, file |-> file, chunks |-> chunks]

\* The files that path `file` of `area` names (none or one).
InodesAt(area, file) ==
  {k \in DOMAIN inodes : inodes[k].area = area /\ inodes[k].file = file}

\* A new execution of download_frame_file for run r of DownloadFrameFile.
NewExec(r) ==
  [pc |-> "start", run |-> r,
   force_download |-> dl_runs[r].force_download,
   recheck_version |-> dl_runs[r].recheck_version,
   version |-> 0, name |-> "", queried |-> FALSE, fd |-> 0, written |-> 0]

\* The executions of download_frame_file, numbered in order of start.
Execs == 1..MaxExecs

\* Execution e is the attempt the engine is waiting for.
IsCurrent(e) ==
  /\ dl[e].run \in DOMAIN dl_runs
  /\ dl_runs[dl[e].run].status = "running"
  /\ dl_runs[dl[e].run].current = e

\* Positions of an execution that has not ended.
RunningPcs == {"start", "listdir", "get", "check_version", "open", "write",
               "rename", "unlink", "symlink"}

\* Positions at which an execution waits for the network.
NetworkPcs == {"get", "write"}

\* An execution that has ended: its frame is gone.
Ended ==
  [pc |-> "ended", run |-> 0, force_download |-> FALSE,
   recheck_version |-> FALSE, version |-> 0, name |-> "", queried |-> FALSE,
   fd |-> 0, written |-> 0]

\* No execution has ended yet.
NoneEnded ==
  [exec |-> 0, outcome |-> "none", queried |-> FALSE, cached |-> FALSE,
   file |-> <<0, "">>, error |-> "none", non_retryable |-> FALSE]

\* Execution e raises: the engine schedules the next attempt under
\* RetryPolicy(maximum_attempts=3), or the DownloadFrameFile run fails.
ExecRaises(e, err, nonret) ==
  LET r == dl[e].run
      ended == [dl EXCEPT ![e] = Ended]
      retry == IsCurrent(e) /\ ~nonret /\ dl_runs[r].attempts < MaximumAttempts
  IN  /\ retry => Len(dl) < MaxExecs
      /\ dl' = IF retry THEN Append(ended, NewExec(r)) ELSE ended
      /\ last_ended' = [exec |-> e, outcome |-> "raised",
                        queried |-> dl[e].queried, cached |-> FALSE,
                        file |-> <<0, "">>, error |-> err, non_retryable |-> nonret]
      /\ dl_runs' =
           IF retry THEN [dl_runs EXCEPT ![r].attempts = @ + 1,
                                         ![r].current = Len(dl) + 1,
                                         ![r].retried = err]
           ELSE IF IsCurrent(e) THEN [dl_runs EXCEPT ![r].status = "failed"]
           ELSE dl_runs

\* Execution e returns DownloadFrameFileOuput(file_path, cached).
ExecReturns(e, cached, file) ==
  /\ dl' = [dl EXCEPT ![e] = Ended]
  /\ last_ended' = [exec |-> e, outcome |-> "returned",
                    queried |-> dl[e].queried, cached |-> cached,
                    file |-> file, error |-> "none", non_retryable |-> FALSE]
  /\ dl_runs' = IF IsCurrent(e)
                  THEN [dl_runs EXCEPT ![dl[e].run].status = "completed",
                                       ![dl[e].run].cached = cached,
                                       ![dl[e].run].exec = e]
                  ELSE dl_runs

cacheVars == <<completed_files, inprogress_files, inodes, latest>>

DownloadInit ==
  /\ working_dir \in WorkingDirs
  /\ frame_meta = [version |-> 1, name |-> "a.fits"]
  /\ \/ /\ completed_files = [v \in Versions |-> {}]
        /\ inodes = <<>>
        /\ latest = NoAlias
        /\ last_completed = 0
     \/ /\ working_dir = "absolute"
        /\ inodes = <<NewInode("completed", <<1, "a.fits">>, Chunks)>>
        /\ completed_files = [v \in Versions |-> IF v = 1 THEN {"a.fits"} ELSE {}]
        /\ latest = SymlinkTarget(1)
        /\ last_completed = 1
  /\ inprogress_files = {}
  /\ dl = <<>>
  /\ last_ended = NoneEnded
  /\ dl_runs = <<>>
  /\ fetchers \in [Fetchers -> {[pc |-> "begin", force_download |-> m[1],
                                  recheck_version |-> m[2], watch |-> 0]
                                  : m \in FetchModes}]

\* No cache and no download: while another component is studied.
DownloadIdle ==
  /\ working_dir = "none"
  /\ frame_meta = [version |-> 0, name |-> ""]
  /\ completed_files = <<>>
  /\ inprogress_files = {}
  /\ inodes = <<>>
  /\ latest = NoAlias
  /\ last_completed = 0
  /\ dl = <<>>
  /\ last_ended = NoneEnded
  /\ dl_runs = <<>>
  /\ fetchers = <<>>

\* Some execution is about to send its GET. The metadata is read there
\* only, so a change of the archive at any other moment is the same as
\* the change just before the next GET.
AboutToQuery == \E e \in DOMAIN dl : dl[e].pc = "get"

\* The archive publishes a new version of the frame (version_set[0]).
ArchivePublishes ==
  /\ AboutToQuery
  /\ frame_meta.version + 1 \in Versions
  /\ frame_meta' = [frame_meta EXCEPT !.version = @ + 1]
  /\ UNCHANGED <<working_dir, cacheVars, last_completed, dl, last_ended, dl_runs, fetchers>>
  /\ UNCHANGED besideDownload

\* The archive reports another basename for the frame.
ArchiveRenames ==
  /\ AboutToQuery
  /\ frame_meta.name = "a.fits"
  /\ frame_meta' = [frame_meta EXCEPT !.name = "b.fits"]
  /\ UNCHANGED <<working_dir, cacheVars, last_completed, dl, last_ended, dl_runs, fetchers>>
  /\ UNCHANGED besideDownload

\* download_frame_file_with_workflow of pipeline d: start_workflow with the
\* id DownloadFrameFile:frames/<frame_id>/<task_queue>; while a run with
\* that id is open the engine raises WorkflowAlreadyStartedError and the
\* handle of the existing workflow is taken instead.
FetchStart(d) ==
  /\ fetchers[d].pc = "begin"
  /\ d = "d2" => fetchers["d1"].pc # "begin"
  /\ IF dl_runs # <<>> /\ dl_runs[Len(dl_runs)].status = "running"
       THEN /\ fetchers' = [fetchers EXCEPT ![d].pc = "await",
                              ![d].watch = Len(dl_runs)]
            /\ UNCHANGED <<dl, dl_runs>>
       ELSE /\ Len(dl) < MaxExecs
            /\ LET r == Len(dl_runs) + 1
                   started == Append(dl_runs,
                                [status |-> "running",
                                 force_download |-> fetchers[d].force_download,
                                 recheck_version |-> fetchers[d].recheck_version,
                                 attempts |-> 1, current |-> Len(dl) + 1,
                                 retried |-> "none",
                                 cached |-> FALSE, exec |-> 0])
               IN  /\ dl_runs' = started
                   /\ dl' = Append(dl, [pc |-> "start", run |-> r,
                                 force_download |-> fetchers[d].force_download,
                                 recheck_version |-> fetchers[d].recheck_version,
                                 version |-> 0, name |-> "", queried |-> FALSE,
                                 fd |-> 0, written |-> 0])
                   /\ fetchers' = [fetchers EXCEPT ![d].pc = "await",
                                     ![d].watch = r]
  /\ UNCHANGED <<working_dir, frame_meta, cacheVars, last_completed, last_ended>>
  /\ UNCHANGED besideDownload

\* `return await h.result()`: what the call of pipeline d has returned or
\* raised once the run it waits for is closed ("pending" before).
FetchResult(d) ==
  IF fetchers[d].pc = "await" /\ dl_runs[fetchers[d].watch].status # "running"
    THEN dl_runs[fetchers[d].watch]
    ELSE [status |-> "pending"]

\* The test of the alias fast path.
CheckAlias(e) ==
  /\ e \in DOMAIN dl
  /\ dl[e].pc = "start"
  /\ dl' = [dl EXCEPT ![e].pc = IF UsesAlias(dl[e]) THEN "listdir" ELSE "get"]
  /\ UNCHANGED <<working_dir, frame_meta, cacheVars, last_completed,
                 last_ended, dl_runs, fetchers>>
  /\ UNCHANGED besideDownload

\* listdir(latest_version_dir): the single file is returned with
\* cached=True; another number of files is an invalid cache state; a link
\* that has gone meanwhile raises FileNotFoundError.
ListAlias(e) ==
  /\ e \in DOMAIN dl
  /\ dl[e].pc = "listdir"
  /\ IF ~AliasExists
       THEN ExecRaises(e, "exception", FALSE)
       ELSE IF AliasDirInvalid(DirOf(latest))
              THEN ExecRaises(e, "invalid_cache_state", TRUE)
              ELSE ExecReturns(e, TRUE,
                        <<latest.version, CHOOSE n \in DirOf(latest) : TRUE>>)
  /\ UNCHANGED <<working_dir, frame_meta, cacheVars, last_completed, fetchers>>
  /\ UNCHANGED besideDownload

\* GET /frames/<frame_id>/ and the parsing of its body.
GetMetadata(e, resp) ==
  /\ e \in DOMAIN dl
  /\ dl[e].pc = "get"
  /\ IF resp = "ok"
       THEN /\ dl' = [dl EXCEPT ![e].pc = "check_version", ![e].queried = TRUE,
                                ![e].version = frame_meta.version,
                                ![e].name = frame_meta.name]
            /\ UNCHANGED <<dl_runs, last_ended>>
       ELSE ExecRaises(e, MetadataError(resp).error, MetadataError(resp).non_retryable)
  /\ UNCHANGED <<working_dir, frame_meta, cacheVars, last_completed, fetchers>>
  /\ UNCHANGED besideDownload

\* `if not i.force_download and await aiofiles.os.path.exists(location):`
CheckVersion(e) ==
  /\ e \in DOMAIN dl
  /\ dl[e].pc = "check_version"
  /\ IF ~dl[e].force_download /\ dl[e].name \in completed_files[dl[e].version]
       THEN ExecReturns(e, TRUE, <<dl[e].version, dl[e].name>>)
       ELSE /\ dl' = [dl EXCEPT ![e].pc = "open"]
            /\ UNCHANGED <<dl_runs, last_ended>>
  /\ UNCHANGED <<working_dir, frame_meta, cacheVars, last_completed, fetchers>>
  /\ UNCHANGED besideDownload

\* aiofiles.open(inprogress_location, mode="wb"): the file at the path is
\* truncated, or created when there is none.
OpenedForWriting(file) ==
  IF InodesAt("inprogress", file) # {}
    THEN [k \in DOMAIN inodes |->
            IF k \in InodesAt("inprogress", file)
              THEN [inodes[k] EXCEPT !.chunks = {}] ELSE inodes[k]]
    ELSE Append(inodes, NewInode("inprogress", file, {}))

\* The execution opens the in-progress file and sends the GET of the body.
OpenInProgress(e) ==
  /\ e \in DOMAIN dl
  /\ dl[e].pc = "open"
  /\ LET file == <<dl[e].version, dl[e].name>> IN
       /\ inodes' = OpenedForWriting(file)
       /\ inprogress_files' = inprogress_files \cup {file}
       /\ dl' = [dl EXCEPT ![e].pc = "write",
                            ![e].fd = CHOOSE k \in DOMAIN inodes' :
                                        /\ inodes'[k].area = "inprogress"
                                        /\ inodes'[k].file = file
                                        /\ \A j \in DOMAIN inodes' :
                                             (inodes'[j].area = "inprogress"
                                                /\ inodes'[j].file = file) => j <= k]
  /\ UNCHANGED <<working_dir, frame_meta, completed_files, latest,
                 last_completed, last_ended, dl_runs, fetchers>>
  /\ UNCHANGED besideDownload

\* `await fobj.write(chunk)` for the next chunk of the stream, at the
\* position of the execution's own file object; after the last chunk the
\* file is closed.
WriteChunk(e) ==
  /\ e \in DOMAIN dl
  /\ dl[e].pc = "write"
  /\ inodes' = [inodes EXCEPT ![dl[e].fd].chunks = @ \cup {dl[e].written + 1}]
  /\ dl' = [dl EXCEPT ![e].written = @ + 1,
                       ![e].pc = IF dl[e].written + 1 = MaxChunks
                                   THEN "rename" ELSE "write"]
  /\ UNCHANGED <<working_dir, frame_meta, completed_files, inprogress_files, latest,
                 last_completed, last_ended, dl_runs, fetchers>>
  /\ UNCHANGED besideDownload

\* rename(2) of the in-progress path onto the completed path: the file
\* takes the completed name and a file that had it is gone.
Renamed(file) ==
  [k \in DOMAIN inodes |->
     IF k \in InodesAt("inprogress", file)
       THEN [inodes[k] EXCEPT !.area = "completed"]
     ELSE IF k \in InodesAt("completed", file)
       THEN [inodes[k] EXCEPT !.area = "gone"]
     ELSE inodes[k]]

\* makedirs(location.parent); rename(inprogress_location, location).
MoveIntoPlace(e) ==
  /\ e \in DOMAIN dl
  /\ dl[e].pc = "rename"
  /\ IF <<dl[e].version, dl[e].name>> \in inprogress_files
       THEN /\ inprogress_files' = inprogress_files \ {<<dl[e].version, dl[e].name>>}
            /\ inodes' = Renamed(<<dl[e].version, dl[e].name>>)
            /\ completed_files' =
                 [completed_files EXCEPT ![dl[e].version] = @ \cup {dl[e].name}]
            /\ last_completed' = dl[e].version
            /\ dl' = [dl EXCEPT ![e].pc = "unlink"]
            /\ UNCHANGED <<dl_runs, last_ended>>
       ELSE /\ ExecRaises(e, "exception", FALSE)
            /\ UNCHANGED <<inprogress_files, inodes, completed_files, last_completed>>
  /\ UNCHANGED <<working_dir, frame_meta, latest, fetchers>>
  /\ UNCHANGED besideDownload

\* with suppress(Exception): unlink(latest_version_dir)
UnlinkAlias(e) ==
  /\ e \in DOMAIN dl
  /\ dl[e].pc = "unlink"
  /\ latest' = NoAlias
  /\ dl' = [dl EXCEPT ![e].pc = "symlink"]
  /\ UNCHANGED <<working_dir, frame_meta, completed_files, inprogress_files, inodes,
                 last_completed, last_ended, dl_runs, fetchers>>
  /\ UNCHANGED besideDownload

\* symlink(location.parent, latest_version_dir): FileExistsError if a link
\* is there; otherwise the alias is created and the execution returns
\* cached=False.
CreateAlias(e) ==
  /\ e \in DOMAIN dl
  /\ dl[e].pc = "symlink"
  /\ IF latest # NoAlias
       THEN /\ ExecRaises(e, "exception", FALSE)
            /\ UNCHANGED latest
       ELSE /\ latest' = SymlinkTarget(dl[e].version)
            /\ ExecReturns(e, FALSE, <<dl[e].version, dl[e].name>>)
  /\ UNCHANGED <<working_dir, frame_meta, completed_files, inprogress_files, inodes,
                 last_completed, fetchers>>
  /\ UNCHANGED besideDownload

\* The execution ends at the await it is suspended in: the stream fails,
\* the activity is cancelled, the worker process dies.
ExecDies(e) ==
  /\ e \in DOMAIN dl
  /\ dl[e].pc \in RunningPcs
  /\ ExecRaises(e, "exception", FALSE)
  /\ UNCHANGED <<working_dir, frame_meta, cacheVars, last_completed, fetchers>>
  /\ UNCHANGED besideDownload

\* An execution the engine has given up on and that is still going on.
IsOrphan(e) == dl[e].pc \in RunningPcs /\ ~IsCurrent(e)

\* The attempt exceeds heartbeat_timeout or start_to_close_timeout while
\* it waits for the metadata or for a chunk of the body: the engine starts
\* the next attempt while the execution is still going on. The execution
\* learns of it at its next heartbeat, which the worker sends within the
\* heartbeat timeout, so one former attempt at most is still going on when
\* an attempt times out.
AttemptTimesOut(e) ==
  /\ e \in DOMAIN dl
  /\ dl[e].pc \in NetworkPcs
  /\ IsCurrent(e)
  /\ ~\E o \in DOMAIN dl : IsOrphan(o)
  /\ dl_runs[dl[e].run].attempts < MaximumAttempts
  /\ Len(dl) < MaxExecs
  /\ dl' = Append(dl, NewExec(dl[e].run))
  /\ dl_runs' = [dl_runs EXCEPT ![dl[e].run].attempts = @ + 1,
                                ![dl[e].run].current = Len(dl) + 1]
  /\ UNCHANGED <<working_dir, frame_meta, cacheVars, last_completed,
                 last_ended, fetchers>>
  /\ UNCHANGED besideDownload

DownloadNext ==
  \/ ArchivePublishes
  \/ ArchiveRenames
  \/ \E d \in Fetchers : FetchStart(d)
  \/ \E e \in Execs : CheckAlias(e)
  \/ \E e \in Execs : ListAlias(e)
  \/ \E e \in Execs, resp \in MetadataResponses : GetMetadata(e, resp)
  \/ \E e \in Execs : CheckVersion(e)
  \/ \E e \in Execs : OpenInProgress(e)
  \/ \E e \in Execs : WriteChunk(e)
  \/ \E e \in Execs : MoveIntoPlace(e)
  \/ \E e \in Execs : UnlinkAlias(e)
  \/ \E e \in Execs : CreateAlias(e)
  \/ \E e \in Execs : ExecDies(e)
  \/ \E e \in Execs : AttemptTimesOut(e)

(* ------------------ the request body of one part upload ---------------- *)
\* Largest file and part size (in bytes) explored for the body generator.
MaxBodySize == 4

\* The fields of UploadS3PartInput that gen() and the content-length use; the
\* offsets are the multiples of the part size inside the file.
BodyInputs ==
  {i \in [file_size : 1..MaxBodySize, part_size : 1..MaxBodySize,
          file_offset : 0..(MaxBodySize - 1)] :
     /\ i.file_offset < i.file_size
     /\ i.file_offset % i.part_size = 0}

\* No heartbeat of the generator has been recorded yet.
NoHeartbeat == "none"

\* Variant: the bytes left are what was left before, less the chunk.
RemainingAfterCumulative(g, chunk_len) == g.remaining - chunk_len

\* remaining = total - len(chunk), with total = i.part_size
RemainingAfter(g, chunk_len) == g.i.part_size - chunk_len

\* len(chunk) for `await fobj.read1(remaining)`: nothing at the end of the
\* file, otherwise at least one byte and at most the bytes asked for.
Read1Sizes(g) ==
  IF g.pos >= g.i.file_size THEN {0}
  ELSE 1..Min(g.remaining, g.i.file_size - g.pos)

\* gen() is started by the PUT: the file is open and positioned at
\* i.file_offset, remaining = total = i.part_size.
BodyInit ==
  \E i \in BodyInputs :
    gen = [i |-> i, pos |-> i.file_offset, remaining |-> i.part_size,
           heartbeat |-> NoHeartbeat, sent |-> 0, st |-> "while"]

\* No part upload is sending a body: while another component is studied.
BodyIdle ==
  gen = [i |-> [file_size |-> 0, part_size |-> 0, file_offset |-> 0], pos |-> 0,
         remaining |-> 0, heartbeat |-> NoHeartbeat, sent |-> 0, st |-> "idle"]

\* `while remaining:` and the heartbeat that opens the loop body.
GenLoopTest ==
  /\ gen.st = "while"
  /\ gen' = IF gen.remaining # 0
              THEN [gen EXCEPT !.heartbeat = gen.remaining, !.st = "read1"]
              ELSE [gen EXCEPT !.st = "stopped"]
  /\ UNCHANGED besideBody

\* `chunk = await fobj.read1(remaining)`: break at the end of the file,
\* otherwise remaining is recomputed and the chunk is sent.
GenRead1(chunk_len) ==
  /\ gen.st = "read1"
  /\ chunk_len \in Read1Sizes(gen)
  /\ gen' = IF chunk_len = 0
              THEN [gen EXCEPT !.st = "stopped"]
              ELSE [gen EXCEPT !.remaining = RemainingAfter(gen, chunk_len),
                               !.pos = @ + chunk_len,
                               !.sent = @ + chunk_len,
                               !.st = "while"]
  /\ UNCHANGED besideBody

BodyNext ==
  \/ GenLoopTest
  \/ \E chunk_len \in 0..MaxBodySize : GenRead1(chunk_len)

(* ---------------------------- specifications --------------------------- *)
\* Every component that is studied on its own is idle.
ComponentsIdle ==
  /\ FramesIdle /\ PartsIdle /\ NormalizeIdle
  /\ TokenIdle /\ HduIdle /\ DownloadIdle /\ BodyIdle

\* One workflow execution.
Init == WorkflowInit /\ RegistryIdle /\ ComponentsIdle

\* The callers and the engine's registry of runs.
SpecRegistryInit == RegistryInit /\ WorkflowIdle /\ ComponentsIdle
SpecRegistry == SpecRegistryInit /\ [][RegistryNext]_vars

\* The frame archive, the workers' caches and successive CreateImage runs.
SpecFramesInit ==
  /\ FramesInit /\ WorkflowIdle /\ RegistryIdle
  /\ PartsIdle /\ NormalizeIdle /\ TokenIdle /\ HduIdle /\ DownloadIdle /\ BodyIdle
SpecFrames == SpecFramesInit /\ [][FramesNext]_vars

\* The part uploads of one encoded file.
SpecPartsInit ==
  /\ PartsInit /\ WorkflowIdle /\ RegistryIdle
  /\ FramesIdle /\ NormalizeIdle /\ TokenIdle /\ HduIdle /\ DownloadIdle /\ BodyIdle
SpecParts == SpecPartsInit /\ [][PartsNext]_vars

\* One image request's region and size normalization.
SpecNormalizeInit ==
  /\ NormalizeInit /\ WorkflowIdle /\ RegistryIdle
  /\ FramesIdle /\ PartsIdle /\ TokenIdle /\ HduIdle /\ DownloadIdle /\ BodyIdle
SpecNormalize == SpecNormalizeInit /\ [][NormalizeNext]_vars

\* The processes started on one working directory and its task-queue file.
SpecTokenInit ==
  /\ TokenInit /\ WorkflowIdle /\ RegistryIdle
  /\ FramesIdle /\ PartsIdle /\ NormalizeIdle /\ HduIdle /\ DownloadIdle /\ BodyIdle
SpecToken == SpecTokenInit /\ [][TokenNext]_vars

\* One FITS file read by get_hdu_dimensions and by create_image_file.
SpecHduInit ==
  /\ HduInit /\ WorkflowIdle /\ RegistryIdle
  /\ FramesIdle /\ PartsIdle /\ NormalizeIdle /\ TokenIdle /\ DownloadIdle /\ BodyIdle
SpecHdu == SpecHduInit /\ [][HduNext]_vars

\* One worker's frame cache, the downloads of one frame and two pipelines.
SpecDownloadInit ==
  /\ DownloadInit /\ WorkflowIdle /\ RegistryIdle
  /\ FramesIdle /\ PartsIdle /\ NormalizeIdle /\ TokenIdle /\ HduIdle /\ BodyIdle
SpecDownload == SpecDownloadInit /\ [][DownloadNext]_vars

\* The request body of one part upload, under every sequence of reads.
SpecBodyInit ==
  /\ BodyInit /\ WorkflowIdle /\ RegistryIdle
  /\ FramesIdle /\ PartsIdle /\ NormalizeIdle /\ TokenIdle /\ HduIdle /\ DownloadIdle
SpecBody == SpecBodyInit /\ [][BodyNext]_vars

Next ==
  \/ FindBestWorkerOk
  \/ DownloadOk
  \/ GetHduDimensionsOk
  \/ CreateImageFileOk
  \/ StartUploadOk
  \/ \E p \in DOMAIN parts : PartOk(p)
  \/ \E p \in DOMAIN parts : PartRetry(p)
  \/ \E p \in DOMAIN parts : PartFail(p)
  \/ FinishOk
  \/ AbortOk
  \/ DeleteOk
  \/ \E eff \in BOOLEAN : StepRetry(eff)
  \/ \E eff \in BOOLEAN : StepGiveUp(eff)
  \/ StepNonRetryable
  \/ \E surf \in {"cancel", "cancelfail"}, eff \in BOOLEAN : Cancel(surf, eff)
  \/ BackoffElapsed

Spec == Init /\ [][Next]_vars

\* One workflow execution whose shell goes on after MaxIter iterations. The
\* engine runs every scheduled activity to an outcome and fires every
\* timer: a step that is possible is eventually taken.
NextUnbounded == Next \/ BackoffElapsedUncounted
SpecProgress == Init /\ [][NextUnbounded]_vars /\ WF_vars(NextUnbounded)

(* ------------------------------- claims -------------------------------- *)
\* The iteration of _run is over: the shell saw its result or its exception.
EndOfIteration == pc \in {"backoff", "completed", "cancelled", "failed"}

\* Errors that are not cancellations.
NonCancellation == {"failed", "nonretryable"}

\* C1: once the upload was created, a non-cancellation failure of a part
\* upload or of finalize invokes abort_s3_multipart_upload for that same
\* upload before the failure leaves _run (from the moment the failure is
\* raised until the shell has seen it, the abort has been invoked for mp).
C1_AbortInvokedBeforeFailureLeaves ==
  (failAt \in {"upload_parts", "finish_upload"} /\ failKind \in NonCancellation)
    => (mp # 0 /\ abortInv = mp)

\* C1 witness: a part upload failed, the abort ran, the shell sees the failure.
C1_Witness ==
  /\ pc = "backoff"
  /\ failAt = "upload_parts"
  /\ failKind = "failed"
  /\ mp # 0
  /\ abortInv = mp
  /\ uploads[mp].status = "aborted"

\* C2 (as claimed): when an iteration ends, no multipart upload created in
\* the store during that iteration is still open.
C2_NoUploadLeftOpen ==
  EndOfIteration => \A u \in DOMAIN uploads : uploads[u].status # "open"

\* C3 (as claimed): a run cancelled while suspended in a part upload or in
\* finalize has invoked abort for its upload and delete_file for its temp
\* file by the time it ends as cancelled.
C3_CancelRunsCompensation ==
  (pc = "cancelled" /\ cancelAt \in {"upload_parts", "finish_upload"})
    => (abortInv = mp /\ deleteInv = <<genFile, w>>)

\* C4: every iteration in which create_image_file returned a file has, when
\* it ends, invoked delete_file for exactly that path on the queue of the
\* worker that holds the file.
C4_DeleteInvokedForGeneratedFile ==
  (EndOfIteration /\ genFile # 0)
    => (deleteInv = <<genFile, w>> /\ files[genFile].worker = deleteInv[2])

\* C4 witness: the abort itself was cut short by the cancellation, and
\* delete_file was still invoked before the run ended as cancelled.
C4_Witness ==
  /\ pc = "cancelled"
  /\ cancelAt = "abort_upload"
  /\ genFile # 0
  /\ deleteInv = <<genFile, w>>

\* C5 (as claimed): when an iteration ends, no temp file written by any
\* create_image_file attempt of that iteration remains on disk.
C5_NoTempFileRemains ==
  EndOfIteration => \A f \in DOMAIN files : ~files[f].present

\* C7 (as claimed): the shell starts no backoff / new iteration for a
\* non-retryable application error.
C7_NonRetryableNotRetried ==
  lastExc = "nonretryable" => pc # "backoff"

\* C8: an iteration that fails with a non-cancellation error puts the shell
\* in its 5-second backoff; from the backoff the workflow only restarts
\* _run at find_best_worker with the same input (or is cancelled); the
\* workflow never ends with a failure result, and it completes only with
\* the result of _run.
C8_ShellRetriesEveryFailure ==
  /\ [](lastExc \in NonCancellation => (pc = "backoff" /\ timer = 5))
  /\ [][pc = "backoff" =>
          \/ pc' = "backoff"
          \/ pc' = "cancelled"
          \/ (pc' = "find_best_worker" /\ arg' = input /\ iter' = iter + 1
              /\ mp' = 0 /\ genFile' = 0)]_vars
  /\ [](pc # "failed")
  /\ [](pc = "completed" => result # "none")

\* C8 witness: no cancellation was delivered, so the first iteration failed
\* with a non-cancellation error, and the second iteration has restarted
\* the pipeline at find_best_worker with the same input.
C8_Witness ==
  /\ ~cancelled
  /\ iter = 2
  /\ pc = "find_best_worker"
  /\ arg = input

\* C9 (as claimed): once a cancellation has been delivered the shell never
\* sleeps for a retry.
C9_CancellationNeverRetried ==
  cancelled => pc # "backoff"

\* C10 (as claimed): abort is never issued for an upload that an execution
\* of finish_s3_multipart_upload has already completed in the store.
C10_NoAbortAfterComplete ==
  pc = "abort_upload" => uploads[abortInv].status # "completed"

\* C6: requests with one orchestration identity never have two runs in
\* flight at once; a caller that did not opt out of reuse and found a run in
\* flight started no run of its own, and the result it returns is the
\* result of that run.
C6_OneRunInFlight ==
  /\ \A r1, r2 \in DOMAIN runs :
       (runs[r1].status = "running" /\ runs[r2].status = "running") => r1 = r2
  /\ \A c \in Callers :
       (callers[c].reuse /\ callers[c].refused # 0)
         => /\ callers[c].started = 0
            /\ callers[c].pc = "done" => callers[c].got = callers[c].refused
  /\ \A c \in Callers :
       (callers[c].pc = "done" /\ callers[c].started = 0)
         => runs[callers[c].got].status = "completed"

\* C6 witness: both callers reuse; the second was refused while the first
\* one's run was in flight and returned that run's result; one run exists.
C6_Witness ==
  /\ \A c \in Callers : callers[c].reuse /\ callers[c].pc = "done"
  /\ callers["c2"].refused # 0
  /\ callers["c2"].got = callers["c1"].started
  /\ Len(runs) = 1

\* C11 (as claimed): two successful CreateImage runs with identical inputs
\* (frame_id, hdu_index, pixel_region, pixel_size, fmt) return the same
\* s3_object_key, and the key is generated/<sha256 of the encoded bytes>.
C11_SameInputsSameKey ==
  /\ \A a, b \in DOMAIN images :
       images[a].input = images[b].input
         => images[a].s3_object_key = images[b].s3_object_key
  /\ \A a \in DOMAIN images :
       images[a].s3_object_key = <<"generated", FileDigest(images[a].bytes)>>

\* The number of parts a file of nbytes bytes splits into: the least n
\* with n * PartSize >= nbytes.
C12_Ceil(nbytes) ==
  CHOOSE n \in 0..(MaxPartCount + 2) : n * PartSize >= nbytes /\ (n - 1) * PartSize < nbytes

\* Sum of the content lengths declared so far.
RECURSIVE C12_Sum(_)
C12_Sum(ns) ==
  IF ns = {} THEN 0
  ELSE LET n == CHOOSE m \in ns : TRUE IN put_requests[n] + C12_Sum(ns \ {n})

\* Every part has been uploaded.
C12_AllUploaded ==
  /\ Len(upload_tasks) = C12_Ceil(file_size)
  /\ DOMAIN put_requests = 1..Len(upload_tasks)

\* C12: for a file of S >= 1 bytes the loop creates the tasks of parts
\* 1..ceil(S/P) in order, part k at offset P*(k-1), and never more; no PUT
\* is sent before all of them exist; every part but the last declares P
\* bytes and the last declares S - P*(ceil(S/P)-1); once every part is
\* uploaded the declared lengths sum to S and the ranges
\* [offset, offset + length) tile [0, S).
C12_PartsTileTheFile ==
  LET count == C12_Ceil(file_size) IN
  /\ file_size >= 1
  /\ Len(upload_tasks) <= count
  /\ \A k \in DOMAIN upload_tasks :
       /\ upload_tasks[k].part_number = k
       /\ upload_tasks[k].file_offset = PartSize * (k - 1)
  /\ put_requests # <<>> => Len(upload_tasks) = count
  /\ \A k \in DOMAIN put_requests :
       /\ k \in 1..count
       /\ k < count => put_requests[k] = PartSize
       /\ k = count => put_requests[k] = file_size - PartSize * (count - 1)
       /\ put_requests[k] >= 1
  /\ C12_AllUploaded =>
       /\ C12_Sum(DOMAIN put_requests) = file_size
       /\ upload_tasks[1].file_offset = 0
       /\ \A k \in 1..(count - 1) :
            upload_tasks[k].file_offset + put_requests[k] = upload_tasks[k + 1].file_offset
       /\ upload_tasks[count].file_offset + put_requests[count] = file_size

\* C12 witness: a file of two whole parts and one byte is fully uploaded in
\* three parts, the last one declaring a single byte.
C12_Witness ==
  /\ file_size = 2 * PartSize + 1
  /\ C12_AllUploaded
  /\ Len(upload_tasks) = 3
  /\ put_requests[3] = 1

\* The request's region has been normalized / its size has been normalized.
RegionDone == norm_region.status # "pending"
SizeDone == norm_size.status # "pending"

\* C13 (as claimed): for every valid region and image, normalize_region
\* returns a PixelRegion with x, y >= 0, w, h >= 1, x <= width, y <= height,
\* or fails with the region-out-of-bounds error, and in no other way.
C13_RegionInBoundsOrRejected ==
  RegionDone =>
    \/ /\ norm_region.status = "ok"
       /\ norm_region.x >= 0 /\ norm_region.y >= 0
       /\ norm_region.w >= 1 /\ norm_region.h >= 1
       /\ norm_region.x <= info.width /\ norm_region.y <= info.height
    \/ norm_region.error = "region_out_of_bounds"

\* round(dimension * value / 100) for a percentage counted in hundredths.
C14_Expected(dimension, value) == RoundHalfEven(dimension * value, 100 * 100)

\* C14 (as claimed): a Percent region that normalize_region returns has
\* each coordinate equal to round(dimension * value / 100), and
\* Percent{50,50,50,50} on a 200 x 100 image yields PixelRegion(100,50,100,50).
C14_PercentOfDimension ==
  /\ (region.kind = "PercentRegion" /\ norm_region.status = "ok") =>
       /\ norm_region.x = C14_Expected(info.width, region.x)
       /\ norm_region.y = C14_Expected(info.height, region.y)
       /\ norm_region.w = C14_Expected(info.width, region.w)
       /\ norm_region.h = C14_Expected(info.height, region.h)
  /\ (/\ RegionDone
      /\ info.width = 200 /\ info.height = 100
      /\ region = [kind |-> "PercentRegion", x |-> Pct(50), y |-> Pct(50),
                   w |-> Pct(50), h |-> Pct(50)])
       => norm_region = RegionOk(100, 50, 100, 50)

\* C15: a PixelSize that normalize_size returns is within the region, within
\* max_width and max_height when declared, and its area within max_area when
\* declared; a size-constraint error is raised exactly for a computed size
\* that violates the constraint the error names.
C15_SizeWithinConstraints ==
  /\ norm_size.status = "ok" =>
       /\ norm_size.width <= norm_region.w
       /\ norm_size.height <= norm_region.h
       /\ info.max_width # None => norm_size.width <= info.max_width
       /\ info.max_height # None => norm_size.height <= info.max_height
       /\ info.max_area # None => norm_size.width * norm_size.height <= info.max_area
  /\ norm_size.error = "width_exceeds_region" => norm_size.width > norm_region.w
  /\ norm_size.error = "height_exceeds_region" => norm_size.height > norm_region.h
  /\ norm_size.error = "width_exceeds_max_width" =>
       (info.max_width # None /\ norm_size.width > info.max_width)
  /\ norm_size.error = "height_exceeds_max_height" =>
       (info.max_height # None /\ norm_size.height > info.max_height)
  /\ norm_size.error = "area_exceeds_max_area" =>
       (info.max_area # None /\ norm_size.width * norm_size.height > info.max_area)

\* C15 witness: a size within the region and within max_width / max_height
\* whose area exceeds the declared max_area was rejected with the area error.
C15_Witness ==
  /\ norm_size.error = "area_exceeds_max_area"
  /\ norm_size.width <= norm_region.w /\ norm_size.height <= norm_region.h
  /\ norm_size.width <= info.max_width /\ norm_size.height <= info.max_height
  /\ norm_size.width * norm_size.height > info.max_area

\* C16 (as claimed): every size with the upscaleable flag set fails with
\* the upscaling-unsupported error, whatever its other parameters, the
\* region and the limits, and before any other validation error.
C16_UpscaleableAlwaysUnsupported ==
  (SizeDone /\ size.upscaleable) => norm_size.error = "upscaling_unsupported"

\* C17 (as claimed): `max` without upscaling succeeds for every region that
\* normalize_region accepted, within the declared limits, and returns the
\* region's own dimensions when no declared limit is smaller than them.
C17_MaxReturnsRegion ==
  (SizeDone /\ size.kind = "MaxSize" /\ ~size.upscaleable) =>
    /\ norm_size.status = "ok"
    /\ norm_size.width <= norm_region.w /\ norm_size.height <= norm_region.h
    /\ (/\ info.max_width = None \/ info.max_width >= norm_region.w
        /\ info.max_height = None \/ info.max_height >= norm_region.h
        /\ info.max_area = None \/ info.max_area >= norm_region.w * norm_region.h)
         => (norm_size.width = norm_region.w /\ norm_size.height = norm_region.h)

\* C18 (as claimed): PreservedAspect{w,h} with neither max_width nor
\* max_height declared succeeds with a size bounded by (w,h) and by the
\* region; PreservedAspect{100,100} over the 200 x 100 region yields (100,50).
C18_PreservedAspectWithoutLimits ==
  (/\ SizeDone
   /\ size.kind = "PreservedAspectPixelSize" /\ ~size.upscaleable
   /\ info.max_width = None /\ info.max_height = None) =>
    /\ norm_size.status = "ok"
    /\ norm_size.width <= size.width /\ norm_size.height <= size.height
    /\ norm_size.width <= norm_region.w /\ norm_size.height <= norm_region.h
    /\ (size.width = 100 /\ size.height = 100
        /\ norm_region.w = 200 /\ norm_region.h = 100)
         => (norm_size.width = 100 /\ norm_size.height = 50)

\* C19 (as claimed): a size returned for PreservedAspect{w,h} is not wider
\* than w, not higher than h, and not larger than the region or the
\* declared limits.
C19_PreservedAspectWithinRequest ==
  (size.kind = "PreservedAspectPixelSize" /\ norm_size.status = "ok") =>
    /\ norm_size.width <= size.width /\ norm_size.height <= size.height
    /\ norm_size.width <= norm_region.w /\ norm_size.height <= norm_region.h
    /\ info.max_width # None => norm_size.width <= info.max_width
    /\ info.max_height # None => norm_size.height <= info.max_height

\* C20: in get_frame_dimensions a caller with reuse_workflow set starts a
\* run only when the latest workflow of the request has not completed and
\* is not in flight (there is none, or it was cancelled or timed out),
\* whatever the caller's force_download and recheck_version; when it
\* returns without having started a run, it returns the result of a
\* completed run that another request started.
C20_ReuseTakesPrecedence ==
  /\ [][\A c \in Callers :
          (/\ api = "get_frame_dimensions"
           /\ callers[c].reuse
           /\ callers[c].started = 0 /\ callers'[c].started # 0)
            => \/ runs = <<>>
               \/ runs[Len(runs)].status \in {"cancelled", "timed_out"}]_vars
  /\ [](\A c \in Callers :
          (/\ api = "get_frame_dimensions"
           /\ callers[c].reuse
           /\ callers[c].pc = "done" /\ callers[c].started = 0)
            => /\ callers[c].got \in DOMAIN runs
               /\ runs[callers[c].got].status = "completed")

\* C20 witness: a request with reuse_workflow and force_download set
\* returned the result of the run that a request without force_download
\* had started, and no other run exists.
C20_Witness ==
  /\ api = "get_frame_dimensions"
  /\ callers["c2"].reuse /\ callers["c2"].force_download
  /\ callers["c2"].pc = "done" /\ callers["c2"].started = 0
  /\ callers["c1"].started = 1 /\ ~callers["c1"].force_download
  /\ callers["c2"].got = 1
  /\ runs[1].input.force_download = FALSE
  /\ Len(runs) = 1

\* C23: finish_s3_multipart_upload is started only when every one of the
\* part_count part uploads of the upload is done, whatever the order in
\* which they completed; while a part is not done (running, failed or
\* cancelled) finish is not being awaited and the upload is not completed.
C23_FinishAfterAllParts ==
  /\ [][(pc # "finish_upload" /\ pc' = "finish_upload") =>
          /\ pc = "upload_parts"
          /\ mp' # 0
          /\ DOMAIN parts' = 1..partCount'
          /\ \A p \in DOMAIN parts' : parts'[p].st = "done"]_vars
  /\ []((\E p \in DOMAIN parts : parts[p].st # "done") =>
          /\ pc # "finish_upload"
          /\ mp # 0 => uploads[mp].status # "completed")

\* C23 witness: both parts of a two-part upload are done, the upload is
\* still open and finish is awaited.
C23_Witness ==
  /\ pc = "finish_upload"
  /\ partCount = 2
  /\ \A p \in DOMAIN parts : parts[p].st = "done"
  /\ uploads[mp].status = "open"

\* C30 (as claimed): every step a pipeline iteration awaits is invoked with
\* an attempt ceiling of 3 and with a schedule-to-start timeout, and never
\* runs a fourth attempt.
C30_EveryStepBounded ==
  pc \in ActivitySteps =>
    /\ MaximumAttemptsOf(pc) = MaximumAttempts
    /\ pc \in ScheduleToStartSteps
    /\ attempt <= MaximumAttempts

\* C24: the list given to finish_s3_multipart_upload has one entry for each
\* part number 1..part_count, in ascending part-number order, and the entry
\* of part k carries the etag returned by the attempt of part k that
\* succeeded, whatever the order of completion and the number of retries.
C24_UploadedPartsOrdered ==
  uploaded_parts # <<>> =>
    /\ Len(uploaded_parts) = C12_Ceil(file_size)
    /\ \A k \in DOMAIN uploaded_parts :
         /\ uploaded_parts[k].part_number = k
         /\ uploaded_parts[k].etag = ETagOf(k, FailuresOf(k) + 1)
         /\ uploaded_parts[k] = upload_results[k]

\* C24 witness: three parts completed in the order 3, 1, 2, part 2 at its
\* third attempt, and the list given to finish is in part-number order.
C24_Witness ==
  /\ completion = <<3, 1, 2>>
  /\ FailuresOf(2) = 2
  /\ Len(uploaded_parts) = 3
  /\ uploaded_parts[2] = [etag |-> ETagOf(2, 3), part_number |-> 2]

\* C22 (as claimed): at most one token is ever written to the task-queue
\* file of a working directory; a process that listens on its exclusive
\* queue listens on the token the file holds; and find_best_worker returns
\* the token on which the process that executed it listens.
C22_TokenGeneratedOnce ==
  /\ Cardinality(written) <= 1
  /\ \A p \in DOMAIN procs : procs[p].pc = "listening" => procs[p].q = token_file
  /\ \A r \in resolved : r[1] = r[2]

\* The requested HDU does not exist or is not two-dimensional.
C29_BadHdu == ~HasHdu(fits_hdus, hdu_index) \/ fits_hdus[hdu_index + 1] # 2

\* C29 (as claimed): when the requested HDU index does not exist or the
\* HDU is not exactly two-dimensional, get_hdu_dimensions and
\* create_image_file each end with a non-retryable application error.
C29_BadHduNonRetryable ==
  C29_BadHdu =>
    /\ dims_result # NotRun =>
         (dims_result.status = "error" /\ dims_result.non_retryable)
    /\ image_result # NotRun =>
         (image_result.status = "error" /\ image_result.non_retryable)

\* Execution e was called with force_download=false and
\* recheck_version=false.
C27_Plain(e) ==
  e \in DOMAIN dl /\ ~dl[e].force_download /\ ~dl[e].recheck_version

\* C27: an execution of download_frame_file with force_download=false and
\* recheck_version=false that finds the `latest` alias takes the alias
\* path, and when it lists the aliased directory while the alias is still
\* there it ends without having queried the metadata service and without
\* changing the cache: with cached=true and the single file of the
\* directory, or, when the directory does not hold exactly one file, with
\* the non-retryable invalid-cache-state error.
C27_AliasFastPath ==
  [][\A e \in Execs :
       C27_Plain(e) /\ AliasExists =>
         /\ CheckAlias(e) => dl'[e].pc = "listdir" /\ ~dl'[e].queried
         /\ ListAlias(e) =>
              /\ UNCHANGED <<cacheVars, frame_meta, last_completed>>
              /\ last_ended'.exec = e
              /\ ~last_ended'.queried
              /\ IF Cardinality(DirOf(latest)) = 1
                   THEN /\ last_ended'.outcome = "returned"
                        /\ last_ended'.cached
                        /\ last_ended'.file[1] = latest.version
                        /\ DirOf(latest) = {last_ended'.file[2]}
                   ELSE /\ last_ended'.outcome = "raised"
                        /\ last_ended'.error = "invalid_cache_state"
                        /\ last_ended'.non_retryable]_vars

\* C27 witness: an execution has returned the file of the aliased
\* directory with cached=true without a query of the metadata service.
C27_Witness ==
  /\ last_ended.outcome = "returned"
  /\ last_ended.cached
  /\ ~last_ended.queried
  /\ latest # NoAlias
  /\ DirOf(latest) = {last_ended.file[2]}

\* C28 (as claimed): every failure to fetch or to parse the frame metadata
\* ends the execution with a non-retryable application error, and no
\* attempt is retried after such a failure.
C28_MetadataFailuresNonRetryable ==
  /\ last_ended.error \in {"fetch_failed", "parse_failed"} =>
       last_ended.non_retryable
  /\ \A r \in DOMAIN dl_runs :
       dl_runs[r].retried \notin {"fetch_failed", "parse_failed"}

\* C21 (as claimed): the fetch step of a pipeline that runs with
\* force_download=true returns cached=false, whatever other pipeline's
\* download of the same frame is in flight on the worker.
C21_ForcedFetchNotCached ==
  \A d \in DOMAIN fetchers :
    (fetchers[d].force_download /\ FetchResult(d).status = "completed") =>
      ~FetchResult(d).cached

\* C25 (as claimed): once no execution is going on, a `latest` alias that
\* exists points to the version directory of the download that completed
\* last.
C25_AliasIsLastCompleted ==
  (/\ latest # NoAlias
   /\ last_completed # 0
   /\ \A e \in DOMAIN dl : dl[e].pc = "ended") =>
    latest.version = last_completed

\* C26 (as claimed): a `latest` alias that exists resolves to an existing
\* completed version directory that holds a file.
C26_AliasResolves ==
  latest # NoAlias =>
    /\ latest.area = "completed"
    /\ latest.base = "working_dir"
    /\ DirOf(latest) # {}

\* Rows and columns of the numpy slice data[y:y+h, x:x+w] of an image of
\* info.height rows and info.width columns: a slice stops at the array's end.
C40_CropShape ==
  <<Min(norm_region.y + norm_region.h, info.height) - Min(norm_region.y, info.height),
    Min(norm_region.x + norm_region.w, info.width) - Min(norm_region.x, info.width)>>

\* C40 (as claimed): every PixelRegion that normalize_region returns lies
\* inside the image, x + w <= width and y + h <= height, so the crop taken
\* by create_image_file has h rows and w columns.
C40_RegionInsideImage ==
  norm_region.status = "ok" =>
    /\ norm_region.x + norm_region.w <= info.width
    /\ norm_region.y + norm_region.h <= info.height
    /\ C40_CropShape = <<norm_region.h, norm_region.w>>

\* The two candidates normalize_size computes for the PreservedAspect size
\* of the request: the FixedWidth result and the FixedHeight result.
C33_WidthCandidate ==
  normalize_size(
    FixedWidthSize(Min(size.width, Min(norm_region.w, OrZero(info.max_width)))),
    norm_region, info)
C33_HeightCandidate ==
  normalize_size(
    FixedHeightSize(Min(size.height, Min(norm_region.h, OrZero(info.max_height)))),
    norm_region, info)

\* C33 (as claimed): for a PreservedAspect size whose two candidates are
\* computed, normalize_size returns the candidate with the larger area
\* width * height, the width-derived one when the areas are equal.
C33_LargerAreaChosen ==
  (/\ SizeDone
   /\ size.kind = "PreservedAspectPixelSize"
   /\ ~size.upscaleable
   /\ C33_WidthCandidate.status = "ok"
   /\ C33_HeightCandidate.status = "ok") =>
    LET cw == C33_WidthCandidate
        ch == C33_HeightCandidate
        chosen == IF cw.width * cw.height >= ch.width * ch.height THEN cw ELSE ch
    IN  /\ norm_size.status = "ok"
        /\ norm_size.width = chosen.width
        /\ norm_size.height = chosen.height

\* The request's ImageInfo with max_height set to max_width.
C34_InfoWithInferredHeight == [info EXCEPT !.max_height = info.max_width]

\* C34 (as claimed): when the ImageInfo has max_width and no max_height,
\* normalize_size gives what it gives for max_height = max_width; a size it
\* returns is then not higher than max_width.
C34_MaxHeightInferred ==
  (SizeDone /\ info.max_width # None /\ info.max_height = None) =>
    /\ norm_size = normalize_size(size, norm_region, C34_InfoWithInferredHeight)
    /\ norm_size.status = "ok" => norm_size.height <= info.max_width

\* The normalized request tuples the identity of a call is compared with.
C35_Tuples ==
  [frame_id : FrameIds, hdu_index : HduIndexes, fmt : ImageFormats,
   region : {RegionOk(px, 0, pw, 1) : px \in {0, 1}, pw \in {1, 11}},
   size : {SizeOk(sw, 1) : sw \in {1, 11}}]
C35_TupleOfCall ==
  [frame_id |-> create_image.frame_id, hdu_index |-> create_image.hdu_index,
   fmt |-> create_image.fmt, region |-> norm_region, size |-> norm_size]
C35_IdOf(t) ==
  CreateImageWorkflowId(t.frame_id, t.hdu_index, t.region, t.size, "0", "default", t.fmt)
C35_ExplicitFullRegion ==
  [kind |-> "PixelRegion", x |-> 0, y |-> 0, w |-> info.width, h |-> info.height]

\* C35: the identity of a CreateImage request is a function of frame_id,
\* hdu_index, the normalized region, the normalized size, rotation, quality
\* and format: a request with the same normalized tuple has the same
\* identity (`full` and the explicit 0,0,W,H region among them) and a request
\* with a different tuple has a different one.
C35_IdentityOfNormalizedRequest ==
  create_image # NotCalled =>
    /\ create_image.id = C35_IdOf(C35_TupleOfCall)
    /\ \A t \in C35_Tuples : (C35_IdOf(t) = create_image.id) <=> (t = C35_TupleOfCall)
    /\ region.kind = "FullRegion" =>
         create_image.id =
           C35_IdOf([C35_TupleOfCall EXCEPT
                       !.region = normalize_region(C35_ExplicitFullRegion, info)])

\* C35 witness: a `full` request on a 1x1 image was started with an id that
\* another request of the compared set shares, and one it does not.
C35_FullRequestStarted ==
  /\ create_image # NotCalled
  /\ region.kind = "FullRegion"
  /\ C35_TupleOfCall \in C35_Tuples
  /\ create_image.frame_id = "1" /\ create_image.hdu_index = 11

\* C38 (as claimed): once finish_s3_multipart_upload has succeeded, the
\* workflow (unless cancelled) goes on to return the object key: from the
\* delete_file step that follows it, it never goes back to the retry shell
\* and so never executes create_image_file or an upload step again, even
\* when delete_file is executed more than once for the same path.
C38_ReturnsAfterFinish ==
  [][(pc = "delete_file" /\ pending = "none" /\ ~cancelled')
       => pc' \in {"delete_file", "completed"}]_vars

\* Steps of an iteration whose activity reads or writes the worker's disk.
C32_DiskSteps == {"download", "get_hdu_dimensions", "create_image_file",
                  "upload_parts", "delete_file"}

\* C32: within one iteration every disk-touching step (the frame download
\* and the DownloadFrameFile workflow it starts, get_hdu_dimensions,
\* create_image_file, every upload_s3_part, delete_file) is dispatched to the
\* one task queue that iteration's find_best_worker returned, and the
\* generated file is created and removed through that queue.
C32_DiskStepsOnBestWorker ==
  /\ pc \in C32_DiskSteps =>
       /\ w \in Workers
       /\ TaskQueueOf(pc) = w
       /\ pc = "download" =>
            DownloadFrameFileTaskQueue = w /\ DownloadFrameFileActivityQueue = w
  /\ genFile # 0 => files[genFile].worker = w
  /\ pc = "delete_file" => deleteInv = <<genFile, w>>

\* C32 witness: the second iteration of a CreateImage run, pinned to a
\* worker, has reached delete_file for the file it generated.
C32_DeleteOnBestWorker ==
  /\ iter = 2
  /\ pc = "delete_file"
  /\ w = "worker/b"
  /\ files[genFile].present

\* C37 (as claimed): whatever sizes the reads return, the generator sends
\* the file bytes from file_offset on and never more than the declared
\* content-length, exactly that many when it stops, and every heartbeat
\* reports part_size minus the bytes sent so far.
C37_BodyMatchesContentLength ==
  /\ gen.st # "idle" =>
       /\ gen.pos = gen.i.file_offset + gen.sent
       /\ gen.sent <= ContentLength(gen.i)
  /\ gen.st = "stopped" => gen.sent = ContentLength(gen.i)
  /\ gen.st = "read1" => gen.heartbeat = gen.i.part_size - gen.sent

\* C36 (as claimed): an execution that has moved its download into place
\* and repoints the alias (unlink, then symlink) returns its downloaded file
\* with cached=false, however the steps of another execution repointing
\* the alias fall between its own, and the alias it leaves behind exists
\* and names a version directory that holds a completed file.
C36_RepointSucceeds ==
  [][\A e \in Execs :
       (e \in DOMAIN dl /\ dl[e].pc = "symlink" /\ CreateAlias(e)) =>
         /\ last_ended'.exec = e
         /\ last_ended'.outcome = "returned"
         /\ last_ended'.file = <<dl[e].version, dl[e].name>>
         /\ latest' # NoAlias
         /\ completed_files'[latest'.version] # {}]_vars

\* C39 (as claimed): every file at a completed versioned cache path holds
\* the whole downloaded body, in every reachable state, attempts for the
\* same frame version that overlap in time included.
C39_CompletedFilesWhole ==
  \A k \in DOMAIN inodes :
    inodes[k].area = "completed" => inodes[k].chunks = Chunks

\* A step's activity fails although it could have run to its end: an
\* attempt fails, the attempts are exhausted, the worker is not there in
\* time, the activity raises a non-retryable error.
C31_StepFails ==
  /\ CanSucceed(pc)
  /\ \/ \E eff \in BOOLEAN : StepRetry(eff)
     \/ \E eff \in BOOLEAN : StepGiveUp(eff)
     \/ StepNonRetryable
     \/ \E p \in DOMAIN parts : PartRetry(p)
     \/ \E p \in DOMAIN parts : PartFail(p)

====
